---- MODULE Spec2Model ----
(***************************************************************************)
(* A model of the realtime streaming client of chatterbots:                *)
(*   - GenAILiveClient (the Session Client): status, handle, connect,      *)
(*     disconnect, the transport callbacks and the inbound demultiplexer;  *)
(*   - useLiveApi (the Connection Coordinator): connect, disconnect with    *)
(*     its shared promise and 5 s timeout, the open/close subscriptions;   *)
(*   - KeynoteCompanion's config/reconnect effect and ControlTray's        *)
(*     connect/disconnect handlers, the callers of the coordinator.        *)
(*                                                                         *)
(* Scheduling follows the JavaScript event loop.  A macrotask (a transport *)
(* callback, a timer, a click, a React commit) runs only when the          *)
(* microtask queue mq is empty; the continuation of an await is a          *)
(* microtask.  React state has two copies: the value last set (connected,  *)
(* config, ...) and the value of the last committed render (rConnected,    *)
(* rConfig, ...), which is what closures and effects see.  A state set in  *)
(* a click handler or in the UI store is committed within that task; one   *)
(* set in a transport callback, a timer, an effect or after an await is    *)
(* committed by a later Render task.                                       *)
(***************************************************************************)
EXTENDS Integers, Sequences, FiniteSets, TLC

\* ---------------------------------------------------------------- bounds
NumConfigs == 2
MaxTransports == 2
MaxReconnects == 2
MaxTimers == 2
\* the user's inputs (clicks, settings changes, modal toggles) and the transport's
\* faults (error, failed open, remote close) in one run
MaxInputs == 3
MaxFaults == 1

\* inbound frames: parts per model turn, grounding chunks, base64 characters of
\* an inline payload
MaxParts == 3
MaxChunks == 2
MaxChars == 3

\* outbound: chunks captured in one run, function responses of a tool response,
\* characters of a close reason
MaxCaptured == 2
MaxResponses == 2
MaxReason == 2
\* grounding chunks accumulated at once
MaxGrounding == 2
\* device acquisitions of the recorder in one run
MaxStarts == 2
\* listeners of one event registered at once
MaxListeners == 2
\* audio events published by the client
MaxAudio == 4

EmptyConfig == 0
NoOverride == -1
Configs == 1..NumConfigs
Transports == 1..MaxTransports
RcIds == 1..MaxReconnects
PromiseIds == 1..MaxTimers

\* callers of the coordinator: the reconnect i is caller i
TrayCaller == 0
ModalCaller == -1
NoCaller == -2
MicCaller == -3
\* a caller of the Session Client's own connect()
DirectCaller == -4
\* callers that do not await the promise
FireAndForget == {ModalCaller, MicCaller}

VARIABLES
  \* GenAILiveClient
  status, session,
  \* the transports opened by client.live.connect
  tstate, tcfg, twaiter,
  \* useLiveApi refs
  dresolver, dpromise, dwaiters, timers,
  \* useLiveApi state and its last committed render
  connected, config, rConnected, rConfig, connectCb,
  \* UI store (agent, user, grounding, modals): useSyncExternalStore commits it at once
  desired, modal,
  \* ControlTray
  isConnecting, rIsConnecting, connTimer, configReady, rConfigReady, micStart,
  \* KeynoteCompanion
  isReconnecting, rc,
  \* event loop
  mq, mounted,
  \* inputs and faults so far
  nInputs, nFaults,
  \* what the last step did, in order (observation only)
  ev,
  \* inbound demultiplexer: the frame received last and the events published for it
  frame, published,
  \* outbound audio: the number of chunks the recorder has produced so far
  \* (chunk i is the i-th captured)
  captured,
  \* useLiveApi's groundingChunks state (chunk i is the i-th received since the
  \* list was last emptied)
  grounding,
  \* AudioRecorder: its state, a stop deferred behind the start in flight, the
  \* device stream held, the device acquisitions so far; ControlTray's data
  \* listener registered and its muted state
  recState, stopPending, stream, starts, listening, muted,
  \* ControlTray's audioRecorderStarted ref and the 'data' listeners registered on
  \* the recorder; the listeners useLiveApi has registered on the client for each
  \* of its events, and whether a run of its effect is in force
  recorderStarted, dataListeners, clientListeners, hookBound,
  \* useLiveApi's audioStreamerRef (none, pending while the output audio context
  \* initializes, ready, failed), the audio events the client has published so
  \* far (event i is the i-th published) and those handed to addPCM16, in order
  streamer, audioOut, played

clientVars == <<status, session>>
transportVars == <<tstate, tcfg, twaiter>>
coordVars == <<dresolver, dpromise, dwaiters, timers>>
hookVars == <<connected, config, rConnected, rConfig, connectCb>>
uiVars == <<desired, modal>>
trayVars == <<isConnecting, rIsConnecting, connTimer, configReady, rConfigReady, micStart>>
kcVars == <<isReconnecting, rc>>
demuxVars == <<frame, published>>
sendVars == <<captured>>
groundVars == <<grounding>>
captureVars == <<recState, stopPending, stream, starts, listening, muted>>
listenVars == <<recorderStarted, dataListeners, clientListeners, hookBound>>
playVars == <<streamer, audioOut, played>>
auxVars == <<demuxVars, sendVars, captureVars, listenVars, playVars>>
ioVars == <<auxVars, groundVars>>
envVars == <<nInputs, nFaults>>
vars == <<clientVars, transportVars, coordVars, hookVars, uiVars, trayVars,
          kcVars, mq, mounted, envVars, ev, ioVars>>

Input == nInputs < MaxInputs /\ nInputs' = nInputs + 1 /\ UNCHANGED nFaults
Fault == nFaults < MaxFaults /\ nFaults' = nFaults + 1 /\ UNCHANGED nInputs

\* ------------------------------------------------------------- helpers
Ev(e, a, b) == [e |-> e, a |-> a, b |-> b]
Tok(k, i) == [k |-> k, i |-> i]

SelectEv(s, e) == SelectSeq(s, LAMBDA x : x.e = e)
CountEv(s, e) == Len(SelectEv(s, e))

IdleRc ==
  [pc |-> "idle", cfg |-> EmptyConfig, cb |-> [connected |-> FALSE, config |-> EmptyConfig],
   closes |-> 0, opens |-> 0, openCfg |-> EmptyConfig, failed |-> FALSE, threw |-> FALSE,
   errs |-> 0, clean |-> FALSE, byClose |-> FALSE]

FreeTransports == {t \in Transports : tstate[t] = "none"}
NewTransport == CHOOSE t \in FreeTransports : \A u \in FreeTransports : t <= u

UsedPromiseIds == timers \cup {dpromise, dresolver} \cup {dwaiters[k].p : k \in DOMAIN dwaiters}
FreePromiseIds == PromiseIds \ UsedPromiseIds
NewPromise == CHOOSE p \in FreePromiseIds : \A q \in FreePromiseIds : p <= q

FreeRc == {i \in RcIds : rc[i].pc \in {"idle", "done"}}
NewRc == CHOOSE i \in FreeRc : \A j \in FreeRc : i <= j

\* ------------------------------------------------ GenAILiveClient.connect
ConnectRejectsOnlyConnected == status = "connected"

\* the guard of connect(): a call is accepted only when status is disconnected
ClientConnectRejects == status = "connected" \/ status = "connecting"

\* useLiveApi.connect with the closure cb of the render that created it:
\*   "skip"  the closure's connected is true, return at once
\*   "false" client.connect returned false at once (nothing was opened)
\*   "open"  client.connect was accepted and awaits the transport
ConnectOutcome(cb) ==
  IF cb.connected THEN "skip"
  ELSE IF ClientConnectRejects THEN "false"
  ELSE "open"

ConfigToUse(cb, override) == IF override # NoOverride THEN override ELSE cb.config

\* the synchronous part of useLiveApi.connect -> GenAILiveClient.connect
CoordConnect(caller, cb, override) ==
  IF ConnectOutcome(cb) = "open"
  THEN /\ FreeTransports # {}
       /\ status' = "connecting"
       /\ tstate' = [tstate EXCEPT ![NewTransport] = "opening"]
       /\ tcfg' = [tcfg EXCEPT ![NewTransport] = ConfigToUse(cb, override)]
       /\ twaiter' = [twaiter EXCEPT ![NewTransport] = caller]
       /\ UNCHANGED session
  ELSE UNCHANGED <<clientVars, transportVars>>

ConnectEvents(caller, cb, override) ==
  IF ConnectOutcome(cb) = "open"
  THEN <<Ev("open", NewTransport, ConfigToUse(cb, override))>>
  ELSE IF ConnectOutcome(cb) = "skip" THEN <<Ev("conn.skip", caller, 0)>>
  ELSE <<Ev("conn.false", caller, 0)>>

ConnectGroundingAlways(cb) == <<>>

\* setGroundingChunks([]) of useLiveApi.connect: it runs once the closure's
\* connected has let the call through, before client.connect is awaited
ConnectGrounding(cb) == IF ConnectOutcome(cb) = "skip" THEN grounding ELSE <<>>

ClientConnectResultTrue(opened) == "true"

\* what GenAILiveClient.connect hands to its caller once live.connect has settled:
\* its catch turns a rejected live.connect into the result false
ClientConnectResult(opened) == IF opened THEN "true" ELSE "false"

\* useLiveApi.connect awaits client.connect and ignores the boolean; its catch
\* (setConnected(false), rethrow) runs only when client.connect throws
CoordConnectThrows(result) == result = "throw"

\* --------------------------------------------- GenAILiveClient.disconnect
HasHandle == session # 0 /\ tstate[session] \in {"open", "closing"}

\* _session?.close() in try/catch, then the handle and the status are reset
ClientDisconnect ==
  /\ tstate' = IF HasHandle THEN [tstate EXCEPT ![session] = "closing"] ELSE tstate
  /\ session' = 0
  /\ status' = "disconnected"

ClientDisconnectEvents == IF HasHandle THEN <<Ev("close", session, 0)>> ELSE <<>>

\* ------------------------------------------------- useLiveApi.disconnect
DisconnectAtOnceWithoutPromise == dpromise = 0

\* nothing to tear down: the client is disconnected and no teardown is in flight
DisconnectReturnsAtOnce == status = "disconnected" /\ dpromise = 0

DisconnectNeverJoins == FALSE

\* a teardown is in flight: its promise is returned
DisconnectJoins == dpromise # 0

DiscOutcome ==
  IF DisconnectReturnsAtOnce THEN "immediate"
  ELSE IF DisconnectJoins THEN "joined"
  ELSE "started"

\* fire-and-forget callers of one promise are indistinguishable: kept once
AddWaiter(ws, who, p) ==
  IF who \in FireAndForget /\ \E k \in DOMAIN ws : ws[k] = [who |-> who, p |-> p]
  THEN ws
  ELSE Append(ws, [who |-> who, p |-> p])

CoordDisconnect(caller) ==
  CASE DiscOutcome = "immediate" ->
         UNCHANGED <<clientVars, tstate, coordVars>>
    [] DiscOutcome = "joined" ->
         /\ dwaiters' = AddWaiter(dwaiters, caller, dpromise)
         /\ UNCHANGED <<clientVars, tstate, dresolver, dpromise, timers>>
    [] DiscOutcome = "started" ->
         /\ FreePromiseIds # {}
         /\ dresolver' = NewPromise
         /\ ClientDisconnect
         /\ timers' = timers \cup {NewPromise}
         /\ dpromise' = NewPromise
         /\ dwaiters' = AddWaiter(dwaiters, caller, NewPromise)

DisconnectEvents(caller) ==
  CASE DiscOutcome = "immediate" -> <<Ev("disc.immediate", caller, 0)>>
    [] DiscOutcome = "joined" -> <<Ev("disc.joined", caller, dpromise)>>
    [] DiscOutcome = "started" ->
         <<Ev("disc.started", caller, NewPromise)>> \o ClientDisconnectEvents
           \o <<Ev("timer", NewPromise, 0)>>

\* the continuation of a caller whose promise resolved
WaiterToken(w) ==
  IF w.who = TrayCaller THEN <<Tok("trayFinD", 0)>>
  ELSE IF w.who \in FireAndForget THEN <<>>
  ELSE <<Tok("rcConn", w.who)>>

RECURSIVE WaiterTokens(_, _)
WaiterTokens(ws, p) ==
  IF ws = <<>> THEN <<>>
  ELSE (IF Head(ws).p = p THEN WaiterToken(Head(ws)) ELSE <<>>) \o WaiterTokens(Tail(ws), p)

\* disconnectResolver.current() then clearPromiseRef: the promise p resolves,
\* its waiters are resumed in call order, the promise ref is cleared
ResolvedWaiters(p) == WaiterTokens(dwaiters, p)
RemainingWaiters(p) == SelectSeq(dwaiters, LAMBDA w : w.p # p)

CallResolver ==
  /\ dresolver' = 0
  /\ dpromise' = 0
  /\ dwaiters' = RemainingWaiters(dresolver)

\* --------------------------------------------- inbound protocol frames
\* a part of a model turn: inline says it has inlineData, pcm that its mimeType
\* starts with 'audio/pcm'; data is the number of base64 characters of the
\* payload, padding aside (0: missing or empty)
TextPart == [inline |-> FALSE, pcm |-> FALSE, data |-> 0]
Parts ==
  {TextPart, [inline |-> TRUE, pcm |-> FALSE, data |-> 1]}
    \cup [inline : {TRUE}, pcm : {TRUE}, data : 0..MaxChars]

PartLists == UNION {[1..n -> Parts] : n \in 0..MaxParts}

Flags == {"absent", "true", "false"}

\* serverContent: chunks is -1 without groundingMetadata.groundingChunks, else
\* the length of the list; interrupted and turnComplete are key presence and value;
\* modelTurn is absent, present without parts, or present with parts
NoContent ==
  [present |-> FALSE, chunks |-> -1, interrupted |-> "absent", turnComplete |-> "absent",
   modelTurn |-> "absent", parts |-> <<>>]

ServerContents ==
  [present : {TRUE}, chunks : -1..MaxChunks, interrupted : Flags, turnComplete : Flags,
   modelTurn : {"absent", "noparts"}, parts : {<<>>}]
    \cup [present : {TRUE}, chunks : -1..MaxChunks, interrupted : Flags,
          turnComplete : Flags, modelTurn : {"parts"}, parts : PartLists]

Frames ==
  [kind : {"frame"}, setupComplete : BOOLEAN, toolCall : BOOLEAN,
   toolCallCancellation : BOOLEAN, sc : ServerContents \cup {NoContent}]

NoFrame == [kind |-> "none"]

Pub(e, a) == [e |-> e, a |-> a]

\* base64ToArrayBuffer(data): atob rejects a text of 4k+1 characters; otherwise
\* every 4 characters give 3 bytes (the buffer is kept as its byte length)
Decodable(data) == data % 4 # 1
DecodedLength(data) == (data * 3) \div 4

IsAudioPart(part) == part.inline /\ part.pcm /\ part.data # 0

\* the loop as it would be with the try/catch around it: the first failure ends it
RECURSIVE AudioEventsAbortOnFailure(_)
AudioEventsAbortOnFailure(parts) ==
  IF parts = <<>> THEN <<>>
  ELSE IF IsAudioPart(Head(parts)) /\ ~Decodable(Head(parts).data) THEN <<>>
  ELSE (IF IsAudioPart(Head(parts))
        THEN <<Pub("audio", DecodedLength(Head(parts).data)), Pub("log", "server.audio")>>
        ELSE <<>>) \o AudioEventsAbortOnFailure(Tail(parts))

\* the loop over modelTurn.parts: audio parts are decoded and published one by one;
\* a part whose decoding throws is logged to the console and skipped
RECURSIVE AudioEvents(_)
AudioEvents(parts) ==
  IF parts = <<>> THEN <<>>
  ELSE (IF IsAudioPart(Head(parts)) /\ Decodable(Head(parts).data)
        THEN <<Pub("audio", DecodedLength(Head(parts).data)), Pub("log", "server.audio")>>
        ELSE <<>>) \o AudioEvents(Tail(parts))

OtherParts(parts) == SelectSeq(parts, LAMBDA x : ~IsAudioPart(x))

\* the model turn as it would be with the content published ahead of the audio
ModelTurnEventsContentFirst(sc) ==
  IF sc.modelTurn = "parts"
  THEN (IF OtherParts(sc.parts) # <<>>
        THEN <<Pub("content", OtherParts(sc.parts)), Pub("log", "server.content")>>
        ELSE <<>>) \o AudioEvents(sc.parts)
  ELSE IF sc.modelTurn = "noparts"
  THEN <<Pub("content", <<>>), Pub("log", "server.content")>>
  ELSE <<>>

\* the model turn: the audio parts first, then one content event with the rest
ModelTurnEvents(sc) ==
  IF sc.modelTurn = "parts"
  THEN AudioEvents(sc.parts)
         \o (IF OtherParts(sc.parts) # <<>>
             THEN <<Pub("content", OtherParts(sc.parts)), Pub("log", "server.content")>>
             ELSE <<>>)
  ELSE IF sc.modelTurn = "noparts"
  THEN <<Pub("content", <<>>), Pub("log", "server.content")>>
  ELSE <<>>

GroundingEvents(sc) ==
  IF sc.chunks > 0
  THEN <<Pub("grounding", sc.chunks), Pub("log", "server.grounding")>>
  ELSE <<>>

InterruptedEvents == <<Pub("log", "receive.serverContent"), Pub("interrupted", 0)>>

TurnCompleteEvents(sc) ==
  IF sc.turnComplete # "absent"
  THEN <<Pub("log", "server.send"), Pub("turncomplete", 0)>>
  ELSE <<>>

\* the check that ends the processing of a server-content frame
IsInterrupted(sc) == sc.interrupted # "absent"

ServerContentEventsNoStop(sc) ==
  GroundingEvents(sc)
    \o (IF IsInterrupted(sc) THEN InterruptedEvents ELSE <<>>)
    \o TurnCompleteEvents(sc) \o ModelTurnEvents(sc)

\* the server-content branch: grounding first; interrupted ends the frame;
\* turn-complete does not
ServerContentEvents(sc) ==
  GroundingEvents(sc)
    \o (IF IsInterrupted(sc)
        THEN InterruptedEvents
        ELSE TurnCompleteEvents(sc) \o ModelTurnEvents(sc))

OnMessageFallsThrough(f) ==
  (IF f.setupComplete THEN <<Pub("setupcomplete", 0)>>
   ELSE IF f.toolCall THEN <<Pub("log", "server.toolCall"), Pub("toolcall", 0)>>
   ELSE IF f.toolCallCancellation
   THEN <<Pub("log", "receive.toolCallCancellation"), Pub("toolcallcancellation", 0)>>
   ELSE <<>>)
    \o (IF f.sc.present THEN ServerContentEvents(f.sc) ELSE <<>>)

\* GenAILiveClient.onMessage: the events published for one frame, in order
OnMessage(f) ==
  IF f.setupComplete THEN <<Pub("setupcomplete", 0)>>
  ELSE IF f.toolCall
  THEN <<Pub("log", "server.toolCall"), Pub("toolcall", 0)>>
  ELSE IF f.toolCallCancellation
  THEN <<Pub("log", "receive.toolCallCancellation"), Pub("toolcallcancellation", 0)>>
  ELSE IF f.sc.present THEN ServerContentEvents(f.sc)
  ELSE <<>>

\* ------------------------------------------------------------------ Init
Init ==
  /\ status = "disconnected" /\ session = 0
  /\ tstate = [t \in Transports |-> "none"]
  /\ tcfg = [t \in Transports |-> EmptyConfig]
  /\ twaiter = [t \in Transports |-> NoCaller]
  /\ dresolver = 0 /\ dpromise = 0 /\ dwaiters = <<>> /\ timers = {}
  /\ connected = FALSE /\ config = EmptyConfig
  /\ rConnected = FALSE /\ rConfig = EmptyConfig
  /\ connectCb = [connected |-> FALSE, config |-> EmptyConfig]
  /\ desired = 1 /\ modal = FALSE
  /\ isConnecting = FALSE /\ rIsConnecting = FALSE /\ connTimer = FALSE
  /\ configReady = FALSE /\ rConfigReady = FALSE /\ micStart = FALSE
  /\ isReconnecting = FALSE /\ rc = [i \in RcIds |-> IdleRc]
  /\ mq = <<>> /\ mounted = FALSE
  /\ nInputs = 0 /\ nFaults = 0
  /\ ev = <<>>
  /\ frame = NoFrame /\ published = <<>>
  /\ captured = 0
  /\ grounding = <<>>
  /\ recState = "idle" /\ stopPending = FALSE /\ stream = FALSE /\ starts = 0
  /\ listening = FALSE /\ muted = FALSE
  /\ recorderStarted = FALSE /\ dataListeners = 0
  /\ clientListeners = 0 /\ hookBound = FALSE
  /\ streamer = "none" /\ audioOut = 0 /\ played = <<>>

\* ------------------------------------------- KeynoteCompanion's effect
ReconnectUnguarded == TRUE

\* KeynoteCompanion's reconnect guard
ReconnectGuard == ~isReconnecting

\* the effect as it would be if a changed configuration reconnected in any state
KcActionReconnectsAlways(M, C, D, G) ==
  IF M
  THEN (IF C /\ ReconnectGuard THEN "modalDisconnect" ELSE "none")
  ELSE IF D # G
  THEN (IF ReconnectGuard THEN "reconnect" ELSE "none")
  ELSE "none"

\* what the config effect does when it runs in a commit where the modal flag is M,
\* the context's connected is C, the configuration built from the settings is D
\* and the context's config is G
KcAction(M, C, D, G) ==
  IF M
  THEN (IF C /\ ReconnectGuard THEN "modalDisconnect" ELSE "none")
  ELSE IF D # G
  THEN (IF C
        THEN (IF ReconnectGuard THEN "reconnect" ELSE "none")
        ELSE "setConfig")
  ELSE "none"

KcSetsConfig(act) == act \in {"reconnect", "setConfig"}
KcDisconnects(act) == act \in {"modalDisconnect", "reconnect"}
KcCaller(act) == IF act = "reconnect" THEN NewRc ELSE ModalCaller

\* the reconnect started by the effect: newConfig D and the connect closure cb are captured
StartedRc(D, cb) ==
  [IdleRc EXCEPT !.pc = "awaitDisc", !.cfg = D, !.cb = cb,
                 !.closes = CountEv(DisconnectEvents(NewRc), "close"),
                 !.clean = (status = "connected" /\ HasHandle /\ dpromise = 0)]

\* the effect's calls: disconnect() on a modal, reconnect() on a changed config
RunKcEffect(act, D, cb) ==
  /\ act = "reconnect" => FreeRc # {}
  /\ IF KcDisconnects(act)
     THEN /\ CoordDisconnect(KcCaller(act))
          /\ UNCHANGED <<tcfg, twaiter>>
     ELSE UNCHANGED <<clientVars, transportVars, coordVars>>
  /\ IF act = "reconnect"
     THEN /\ isReconnecting' = TRUE
          /\ rc' = [rc EXCEPT ![NewRc] = StartedRc(D, cb)]
          /\ mq' = IF DiscOutcome = "immediate" THEN <<Tok("rcConn", NewRc)>> ELSE <<>>
     ELSE UNCHANGED <<kcVars, mq>>

KcEffectEvents(act) ==
  IF KcDisconnects(act) THEN DisconnectEvents(KcCaller(act)) ELSE <<>>

\* ------------------------------------------------- user interface inputs
\* hook state has been set since the last commit: React has a render scheduled
NeedsRender ==
  <<connected, config, isConnecting, configReady>>
    # <<rConnected, rConfig, rIsConnecting, rConfigReady>>

\* a user acts on the committed UI: React commits a scheduled render within the
\* frame, before the next click or keystroke is dispatched
UserActs == mq = <<>> /\ mounted /\ ~NeedsRender

\* setConfig(c) called by an effect of a commit caused by a store change: React
\* renders again within the same task, and useCallback makes a new connect
\* closure if the config changed (the effect's re-run then finds newConfig equal)
CommitConfig(c) ==
  /\ config' = c
  /\ rConfig' = c
  /\ connectCb' = IF c # rConfig THEN [connected |-> rConnected, config |-> c] ELSE connectCb

\* the user edits the agent or the user profile: the store commits at once and
\* KeynoteCompanion's effect runs with the context of the last committed render
ChangeSettings(c) ==
  /\ Input
  /\ UserActs
  /\ c # desired
  /\ desired' = c
  /\ LET act == KcAction(modal, rConnected, c, rConfig) IN
       /\ RunKcEffect(act, c, connectCb)
       /\ CommitConfig(IF KcSetsConfig(act) THEN c ELSE config)
       /\ ev' = KcEffectEvents(act)
  /\ UNCHANGED <<connected, rConnected, modal, trayVars, mounted, ioVars>>

\* ControlTray's grounding button: setUseGrounding and configSetRef.current = false,
\* so ControlTray's config effect sets the new config whatever KeynoteCompanion does
ToggleGrounding(c) ==
  /\ Input
  /\ UserActs
  /\ c # desired
  /\ desired' = c
  /\ LET act == KcAction(modal, rConnected, c, rConfig) IN
       /\ RunKcEffect(act, c, connectCb)
       /\ CommitConfig(c)
       /\ ev' = KcEffectEvents(act)
  /\ UNCHANGED <<connected, rConnected, modal, trayVars, mounted, ioVars>>

\* a settings modal (agent edit, user config) is opened or closed
ToggleModal ==
  /\ Input
  /\ UserActs
  /\ modal' = ~modal
  /\ LET act == KcAction(~modal, rConnected, desired, rConfig) IN
       /\ RunKcEffect(act, desired, connectCb)
       /\ CommitConfig(IF KcSetsConfig(act) THEN desired ELSE config)
       /\ ev' = KcEffectEvents(act)
  /\ UNCHANGED <<connected, rConnected, desired, trayVars, mounted, ioVars>>

\* ------------------------------------------------------- React commits
\* the effects of the first commit: ControlTray sets the initial config,
\* KeynoteCompanion's effect sees config {} differ and, not connected, sets it
Mount ==
  /\ UNCHANGED envVars
  /\ mq = <<>> /\ ~mounted
  /\ mounted' = TRUE
  /\ config' = desired
  /\ configReady' = TRUE
  /\ ev' = <<>>
  /\ UNCHANGED <<clientVars, transportVars, coordVars, connected, rConnected, rConfig,
                 connectCb, uiVars, isConnecting, rIsConnecting, connTimer, rConfigReady,
                 micStart, kcVars, mq, ioVars>>

\* useCallback(connect, [client, config]): a new closure only when config changed;
\* it captures the connected of the render that creates it
NewConnectCb ==
  IF config # rConfig THEN [connected |-> connected, config |-> config] ELSE connectCb

\* the effect's dependencies that a commit of the hook state can change
KcDepsChanged == connected # rConnected \/ config # rConfig

RenderKcAction ==
  IF KcDepsChanged THEN KcAction(modal, connected, desired, config) ELSE "none"

\* KeynoteCompanion's beginSession effect: client.send when connected became true;
\* it runs after the config effect of the same commit
GreetingRuns == connected # rConnected /\ connected
GreetingEvents ==
  IF ~GreetingRuns THEN <<>>
  ELSE IF KcDisconnects(RenderKcAction) /\ DiscOutcome = "started"
  THEN <<Ev("error", 3, 0)>>
  ELSE IF status = "connected" /\ session # 0 THEN <<Ev("send", session, 0)>>
  ELSE <<Ev("error", 3, 0)>>

\* the pending hook state is committed and the effects whose dependencies changed run
Render ==
  /\ UNCHANGED envVars
  /\ mq = <<>> /\ mounted /\ NeedsRender
  /\ rConnected' = connected /\ rConfig' = config
  /\ rIsConnecting' = isConnecting /\ rConfigReady' = configReady
  /\ connectCb' = NewConnectCb
  /\ connTimer' = IF isConnecting # rIsConnecting THEN isConnecting ELSE connTimer
  /\ micStart' = (micStart \/ GreetingRuns)
  /\ RunKcEffect(RenderKcAction, desired, NewConnectCb)
  /\ config' = IF KcSetsConfig(RenderKcAction) THEN desired ELSE config
  /\ ev' = KcEffectEvents(RenderKcAction) \o GreetingEvents
  /\ UNCHANGED <<connected, uiVars, isConnecting, configReady, mounted, ioVars>>

\* ------------------------------------------------------------ ControlTray
\* the connect button: enabled unless isConnecting or the config is not ready,
\* bound to handleConnect while the rendered connected is false
HandleConnect ==
  /\ Input
  /\ UserActs
  /\ ~rConnected /\ ~rIsConnecting /\ rConfigReady
  /\ IF status = "connected"
     THEN /\ ev' = <<>>
          /\ UNCHANGED <<clientVars, transportVars, isConnecting, rIsConnecting, connTimer, mq,
                         grounding>>
     ELSE /\ isConnecting' = TRUE
          /\ rIsConnecting' = TRUE
          /\ connTimer' = TRUE
          /\ CoordConnect(TrayCaller, connectCb, NoOverride)
          /\ grounding' = ConnectGrounding(connectCb)
          /\ mq' = IF ConnectOutcome(connectCb) = "open" THEN <<>> ELSE <<Tok("trayFinC", 0)>>
          /\ ev' = ConnectEvents(TrayCaller, connectCb, NoOverride)
  /\ UNCHANGED <<coordVars, hookVars, uiVars, configReady, rConfigReady, micStart,
                 kcVars, mounted, auxVars>>

HandleDisconnect ==
  /\ Input
  /\ UserActs
  /\ rConnected /\ ~rIsConnecting /\ rConfigReady
  /\ IF status # "connected"
     THEN /\ ev' = <<>>
          /\ UNCHANGED <<clientVars, tstate, coordVars, isConnecting, rIsConnecting, connTimer, mq>>
     ELSE /\ isConnecting' = TRUE
          /\ rIsConnecting' = TRUE
          /\ connTimer' = TRUE
          /\ CoordDisconnect(TrayCaller)
          /\ mq' = IF DiscOutcome = "immediate" THEN <<Tok("trayFinD", 0)>> ELSE <<>>
          /\ ev' = DisconnectEvents(TrayCaller)
  /\ UNCHANGED <<tcfg, twaiter, hookVars, uiVars, configReady, rConfigReady, micStart,
                 kcVars, mounted, ioVars>>

\* the 15 s connection timeout armed while isConnecting
ConnectionTimeout ==
  /\ UNCHANGED envVars
  /\ mq = <<>> /\ connTimer
  /\ connTimer' = FALSE
  /\ isConnecting' = FALSE
  /\ ev' = <<>>
  /\ UNCHANGED <<clientVars, transportVars, coordVars, hookVars, uiVars, rIsConnecting,
                 configReady, rConfigReady, micStart, kcVars, mq, mounted, ioVars>>

\* ControlTray's recorder effect: audioRecorder.start() was called when connected
\* became true and now settles; on success nothing else happens
RecorderStarted ==
  /\ UNCHANGED envVars
  /\ mq = <<>> /\ micStart
  /\ micStart' = FALSE
  /\ ev' = <<>>
  /\ UNCHANGED <<clientVars, transportVars, coordVars, hookVars, uiVars, isConnecting,
                 rIsConnecting, connTimer, configReady, rConfigReady, kcVars, mq, mounted,
                 ioVars>>

\* start() rejects (permission denied, no device): the catch publishes an error
\* and calls disconnect() without awaiting it
RecorderFails ==
  /\ Fault
  /\ mq = <<>> /\ micStart
  /\ micStart' = FALSE
  /\ CoordDisconnect(MicCaller)
  /\ ev' = <<Ev("error", 4, 0)>> \o DisconnectEvents(MicCaller)
  /\ UNCHANGED <<tcfg, twaiter, hookVars, uiVars, isConnecting, rIsConnecting, connTimer,
                 configReady, rConfigReady, kcVars, mq, mounted, ioVars>>

\* ----------------------------------------------------- transport events
\* the transport opens: GenAILiveClient.onOpen, then useLiveApi's onOpen listener;
\* the awaited live.connect resolves, its continuation is a microtask
TransportOpen(t) ==
  /\ UNCHANGED envVars
  /\ mq = <<>>
  /\ tstate[t] = "opening"
  /\ tstate' = [tstate EXCEPT ![t] = "open"]
  /\ status' = "connected"
  /\ connected' = TRUE
  /\ grounding' = <<>>
  /\ mq' = <<Tok("conn", t)>>
  /\ ev' = <<Ev("ev.open", t, 0)>>
  /\ UNCHANGED <<session, tcfg, twaiter, coordVars, config, rConnected, rConfig, connectCb,
                 uiVars, trayVars, kcVars, mounted, auxVars>>

\* the continuation of the caller that awaited useLiveApi.connect
CallerFinish(caller, threw) ==
  IF caller = TrayCaller THEN <<Tok("trayFinC", IF threw THEN 1 ELSE 0)>>
  ELSE IF caller \in RcIds THEN <<Tok("rcFin", caller)>>
  ELSE <<>>

\* the open attempt fails: live.connect rejects, GenAILiveClient.connect's catch
\* resets status and handle and returns false; useLiveApi.connect returns normally
TransportFail(t) ==
  /\ Fault
  /\ mq = <<>>
  /\ tstate[t] = "opening"
  /\ tstate' = [tstate EXCEPT ![t] = "none"]
  /\ tcfg' = [tcfg EXCEPT ![t] = EmptyConfig]
  /\ twaiter' = [twaiter EXCEPT ![t] = NoCaller]
  /\ status' = "disconnected"
  /\ session' = 0
  /\ LET threw == CoordConnectThrows(ClientConnectResult(FALSE)) IN
       /\ connected' = IF threw THEN FALSE ELSE connected
       /\ rc' = IF twaiter[t] \in RcIds
                THEN [rc EXCEPT ![twaiter[t]].failed = TRUE, ![twaiter[t]].threw = threw]
                ELSE rc
       /\ mq' = CallerFinish(twaiter[t], threw)
       /\ ev' = <<Ev("conn.fail", twaiter[t], t),
                  Ev(IF threw THEN "conn.throw" ELSE "conn.return", twaiter[t], t)>>
  /\ UNCHANGED <<coordVars, config, rConnected, rConfig, connectCb, uiVars, trayVars,
                 isReconnecting, mounted, ioVars>>

\* rc with the reconnects among the waiters of promise p marked resolved
MarkByClose(p) ==
  [i \in RcIds |->
     IF \E k \in DOMAIN dwaiters : dwaiters[k] = [who |-> i, p |-> p]
     THEN [rc[i] EXCEPT !.byClose = TRUE]
     ELSE rc[i]]

\* the close event of a transport (after a local close() or from the remote side):
\* GenAILiveClient.onClose, then useLiveApi's onClose listener
TransportClose(t) ==
  /\ IF tstate[t] = "open" THEN Fault ELSE UNCHANGED envVars
  /\ mq = <<>>
  /\ tstate[t] \in {"open", "closing"}
  /\ tstate' = [tstate EXCEPT ![t] = "none"]
  /\ tcfg' = [tcfg EXCEPT ![t] = EmptyConfig]
  /\ status' = "disconnected"
  /\ session' = 0
  /\ connected' = FALSE
  /\ IF dresolver # 0
     THEN /\ CallResolver
          /\ mq' = ResolvedWaiters(dresolver)
          /\ rc' = MarkByClose(dresolver)
          /\ ev' = <<Ev("ev.close", t, 0), Ev("resolve", dresolver, 0)>>
     ELSE /\ UNCHANGED <<dresolver, dpromise, dwaiters, mq, rc>>
          /\ ev' = <<Ev("ev.close", t, 0)>>
  /\ UNCHANGED <<twaiter, timers, config, rConnected, rConfig, connectCb, uiVars, trayVars,
                 isReconnecting, mounted, ioVars>>

\* the error callback of an open transport: GenAILiveClient.onError
TransportError(t) ==
  /\ Fault
  /\ mq = <<>>
  /\ tstate[t] = "open"
  /\ status' = "disconnected"
  /\ ev' = <<Ev("error", 0, t)>>
  /\ UNCHANGED <<session, transportVars, coordVars, hookVars, uiVars, trayVars, kcVars,
                 mq, mounted, ioVars>>

TimeoutSkipsResolver == FALSE

\* the timeout callback's check: the resolver is called if one is still set
TimeoutResolves == dresolver # 0

\* the 5 s timeout armed by the disconnect that created promise p
DisconnectTimeout(p) ==
  /\ UNCHANGED envVars
  /\ mq = <<>>
  /\ p \in timers
  /\ timers' = timers \ {p}
  /\ IF TimeoutResolves
     THEN /\ CallResolver
          /\ mq' = ResolvedWaiters(dresolver)
          /\ ev' = <<Ev("timeout", p, 0), Ev("resolve", dresolver, 1)>>
     ELSE /\ UNCHANGED <<dresolver, dpromise, dwaiters, mq>>
          /\ ev' = <<Ev("timeout", p, 0)>>
  /\ UNCHANGED <<clientVars, transportVars, hookVars, uiVars, trayVars, kcVars,
                 mounted, ioVars>>

\* ----------------------------------------------------------- microtasks
\* GenAILiveClient.connect resumes after its await: the handle is installed,
\* status is connected, true is returned; useLiveApi.connect returns
ResumeClientConnect ==
  /\ UNCHANGED envVars
  /\ mq # <<>> /\ Head(mq).k = "conn"
  /\ LET t == Head(mq).i IN
       /\ session' = t
       /\ status' = "connected"
       /\ twaiter' = [twaiter EXCEPT ![t] = NoCaller]
       /\ mq' = Tail(mq) \o CallerFinish(twaiter[t], CoordConnectThrows(ClientConnectResult(TRUE)))
       /\ ev' = <<Ev("conn.ok", twaiter[t], t)>>
  /\ UNCHANGED <<tstate, tcfg, coordVars, hookVars, uiVars, trayVars, kcVars,
                 mounted, ioVars>>

\* ControlTray.handleConnect / handleDisconnect: the finally block
TrayFinish ==
  /\ UNCHANGED envVars
  /\ mq # <<>> /\ Head(mq).k \in {"trayFinC", "trayFinD"}
  /\ isConnecting' = FALSE
  /\ connTimer' = IF Head(mq).k = "trayFinC" THEN FALSE ELSE connTimer
  /\ mq' = Tail(mq)
  /\ ev' = IF Head(mq).k = "trayFinC" /\ Head(mq).i = 1 THEN <<Ev("error", 2, 0)>> ELSE <<>>
  /\ UNCHANGED <<clientVars, transportVars, coordVars, hookVars, uiVars, rIsConnecting,
                 configReady, rConfigReady, micStart, kcVars, mounted, ioVars>>

\* reconnect: await disconnect() has resolved, connect(newConfig) is called
\* with the connect closure the effect captured
ResumeReconnect ==
  /\ UNCHANGED envVars
  /\ mq # <<>> /\ Head(mq).k = "rcConn"
  /\ LET i == Head(mq).i
         o == ConnectOutcome(rc[i].cb)
     IN
       /\ CoordConnect(i, rc[i].cb, rc[i].cfg)
       /\ rc' = [rc EXCEPT ![i].pc = IF o = "open" THEN "awaitConn" ELSE "awaitFin",
                           ![i].opens = IF o = "open" THEN 1 ELSE 0,
                           ![i].openCfg = IF o = "open"
                                          THEN ConfigToUse(rc[i].cb, rc[i].cfg)
                                          ELSE EmptyConfig]
       /\ mq' = Tail(mq) \o (IF o = "open" THEN <<>> ELSE <<Tok("rcFin", i)>>)
       /\ ev' = ConnectEvents(i, rc[i].cb, rc[i].cfg)
       /\ grounding' = ConnectGrounding(rc[i].cb)
  /\ UNCHANGED <<coordVars, hookVars, uiVars, trayVars, isReconnecting, mounted, auxVars>>

\* reconnect: connect() has settled; the catch publishes one error event if it
\* threw, then the finally block clears the flag
ReconnectFinish ==
  /\ UNCHANGED envVars
  /\ mq # <<>> /\ Head(mq).k = "rcFin"
  /\ isReconnecting' = FALSE
  /\ rc' = [rc EXCEPT ![Head(mq).i] = IdleRc]
  /\ mq' = Tail(mq)
  /\ LET r == rc[Head(mq).i]
         n == IF r.threw THEN 1 ELSE 0
     IN ev' = (IF r.threw THEN <<Ev("error", 1, Head(mq).i)>> ELSE <<>>)
                \o <<Ev("rc.done", Head(mq).i, [r EXCEPT !.errs = n])>>
  /\ UNCHANGED <<clientVars, transportVars, coordVars, hookVars, uiVars, trayVars,
                 mounted, ioVars>>

\* ------------------------------------------------------------------ Next
Next ==
  \/ Mount
  \/ Render
  \/ \E c \in Configs : ChangeSettings(c)
  \/ \E c \in Configs : ToggleGrounding(c)
  \/ ToggleModal
  \/ HandleConnect
  \/ HandleDisconnect
  \/ ConnectionTimeout
  \/ RecorderStarted
  \/ RecorderFails
  \/ \E t \in Transports : TransportOpen(t)
  \/ \E t \in Transports : TransportFail(t)
  \/ \E t \in Transports : TransportClose(t)
  \/ \E t \in Transports : TransportError(t)
  \/ \E p \in PromiseIds : DisconnectTimeout(p)
  \/ ResumeClientConnect
  \/ TrayFinish
  \/ ResumeReconnect
  \/ ReconnectFinish

Spec == Init /\ [][Next]_vars

\* the JavaScript runtime runs every queued microtask and fires every armed timer;
\* nothing obliges the transport or the user to act
Microtask == ResumeClientConnect \/ TrayFinish \/ ResumeReconnect \/ ReconnectFinish

SpecFair ==
  /\ Spec
  /\ WF_vars(Microtask)
  /\ \A p \in PromiseIds : WF_vars(DisconnectTimeout(p))

\* ------------------------------------------------- grounding references
\* a frame with n grounding chunks arrives on a transport that was opened: the
\* client publishes 'grounding', useLiveApi's onGrounding listener appends
GroundingArrives(t, n) ==
  /\ UNCHANGED envVars
  /\ mq = <<>>
  /\ tstate[t] \in {"open", "closing"}
  /\ Len(grounding) + n <= MaxGrounding
  /\ grounding' = grounding \o [k \in 1..n |-> Len(grounding) + k]
  /\ ev' = <<Ev("grounding", n, t)>>
  /\ UNCHANGED <<clientVars, transportVars, coordVars, hookVars, uiVars, trayVars, kcVars,
                 mq, mounted, auxVars>>

NextGround ==
  \/ Next
  \/ \E t \in Transports : \E n \in 1..MaxGrounding : GroundingArrives(t, n)

SpecGround == Init /\ [][NextGround]_vars

\* ================================================================ claims
DiscCalls(s) ==
  SelectSeq(s, LAMBDA x : x.e \in {"disc.immediate", "disc.joined", "disc.started"})

\* the teardown in flight is one promise: every waiter holds it, its resolver
\* is set and its timeout is armed
TeardownShared ==
  /\ \A k \in DOMAIN dwaiters : dwaiters[k].p = dpromise /\ dpromise # 0
  /\ dpromise # 0 => dresolver = dpromise /\ dpromise \in timers

Resumed(w, q) ==
  w.who \in FireAndForget
    \/ \E j \in DOMAIN q : q[j] = (IF w.who = TrayCaller THEN Tok("trayFinD", 0)
                                   ELSE Tok("rcConn", w.who))

\* C1: of the disconnect() calls made on the coordinator while connected, before
\* the close event, the first closes the transport exactly once and creates the
\* pending promise; every further call closes nothing and joins that same
\* promise; when the promise resolves (close event or timeout) every caller
\* that awaits it is resumed and none is left waiting.
C1_OneCloseSharedOutcome ==
  [][LET started == SelectEv(ev', "disc.started")
         joined == SelectEv(ev', "disc.joined")
         resolved == SelectEv(ev', "resolve")
     IN
       /\ (started # <<>> /\ status = "connected") =>
             /\ CountEv(ev', "close") = 1
             /\ dpromise' = started[1].b
       /\ joined # <<>> =>
             /\ CountEv(ev', "close") = 0
             /\ joined[1].b = dpromise /\ dpromise' = dpromise
             /\ UNCHANGED <<status, session, tstate, dresolver, timers>>
       /\ (started # <<>> \/ joined # <<>>) =>
             \E k \in DOMAIN dwaiters' : dwaiters'[k].p = dpromise'
       /\ resolved # <<>> =>
             /\ dwaiters' = <<>> /\ dpromise' = 0 /\ dresolver' = 0
             /\ \A k \in DOMAIN dwaiters : Resumed(dwaiters[k], mq')
       /\ TeardownShared']_vars

\* a second caller has joined the teardown of a transport that is closing
C1_Witness ==
  /\ CountEv(ev, "disc.joined") = 1
  /\ Len(dwaiters) >= 2
  /\ \E t \in Transports : tstate[t] = "closing"

\* C3: GenAILiveClient.connect called while the status is connecting or connected
\* returns false, opens no transport and leaves status and handle as they were;
\* a transport is opened only by a call made while disconnected.
C3_ConnectRejected ==
  [][/\ CountEv(ev', "open") > 0 =>
          status = "disconnected" /\ CountEv(ev', "open") = 1 /\ status' = "connecting"
     /\ CountEv(ev', "conn.false") > 0 =>
          /\ status \in {"connecting", "connected"}
          /\ CountEv(ev', "open") = 0
          /\ UNCHANGED <<status, session, tstate, tcfg, twaiter>>]_vars

\* connect was called while a connect was in flight and returned false
C3_Witness == CountEv(ev, "conn.false") = 1 /\ status = "connecting"

\* C5: a coordinator disconnect() called while the client status is disconnected
\* and no teardown is in flight resolves immediately: no transport close, no
\* timeout armed, no pending teardown recorded, the caller continues at once.
C5_ImmediateDisconnect ==
  [][/\ (DiscCalls(ev') # <<>> /\ status = "disconnected" /\ dpromise = 0) =>
          DiscCalls(ev')[1].e = "disc.immediate"
     /\ CountEv(ev', "disc.immediate") > 0 =>
          /\ status = "disconnected" /\ dpromise = 0
          /\ CountEv(ev', "close") = 0 /\ CountEv(ev', "timer") = 0
          /\ UNCHANGED <<status, session, tstate, dresolver, dpromise, timers, dwaiters>>
          /\ \A k \in DOMAIN ev' :
               (ev'[k].e = "disc.immediate" /\ ev'[k].a \in RcIds) =>
                  mq' = <<Tok("rcConn", ev'[k].a)>>]_vars

\* disconnect() was called with nothing to tear down
C5_Witness == CountEv(ev, "disc.immediate") = 1 /\ status = "disconnected" /\ dpromise = 0

\* C4: every teardown started by a coordinator disconnect() is eventually
\* resolved and every caller waiting on it eventually resumed, whether or not
\* the close event arrives: the 5 s timeout forces it.
C4_DisconnectResolves ==
  /\ \A p \in PromiseIds : (dpromise = p) ~> (dpromise = 0)
  /\ (dwaiters # <<>>) ~> (dwaiters = <<>> /\ dpromise = 0)

\* a teardown started while a connect was in flight, with no handle to close, has
\* been resolved by the timeout: no transport is closing, so no close event could come
C4_Witness ==
  /\ \E k \in DOMAIN ev : ev[k].e = "resolve" /\ ev[k].b = 1
  /\ \A t \in Transports : tstate[t] # "closing"
  /\ \E t \in Transports : tstate[t] = "opening"

ActiveRc == {i \in RcIds : rc[i].pc # "idle"}

\* C6: at most one reconnect sequence is in progress; the flag is set exactly
\* while one is; a trigger of the effect that arrives while the flag is set
\* starts no disconnect of its own.
C6_SingleReconnect ==
  [][/\ Cardinality(ActiveRc') <= 1
     /\ isReconnecting' <=> ActiveRc' # {}
     /\ isReconnecting =>
          \A k \in DOMAIN DiscCalls(ev') : DiscCalls(ev')[k].a \in {TrayCaller, MicCaller}]_vars

\* the settings changed again while a reconnect was in progress, with the
\* context still connected: the effect reached the guard and returned
C6_Witness ==
  /\ isReconnecting /\ rConnected /\ ~modal
  /\ \E i \in ActiveRc : rc[i].cfg # desired /\ config = rc[i].cfg

\* C2: every reconnect started by a config change while connected, with no
\* teardown already in flight, closes the transport once and then opens exactly
\* one transport with the new configuration, publishing no error.
C2_EachChangeReconnects ==
  \A k \in DOMAIN ev :
    (ev[k].e = "rc.done" /\ ev[k].b.clean) =>
       /\ ev[k].b.closes = 1
       /\ ev[k].b.opens = 1
       /\ ev[k].b.openCfg = ev[k].b.cfg
       /\ ev[k].b.errs = 0

\* C7: when the connect step of a reconnect fails, the reconnect publishes
\* exactly one error event and has cleared the in-progress flag when it settles.
C7_FailedReconnectReports ==
  \A k \in DOMAIN ev :
    (ev[k].e = "rc.done" /\ ev[k].b.failed) =>
       /\ ev[k].b.errs = 1
       /\ CountEv(ev, "error") = 1
       /\ ~isReconnecting

\* C8: when the transport open fails during a coordinator connect(), the call
\* throws to its caller and the connected flag is false afterwards.
C8_FailedConnectThrows ==
  \A k \in DOMAIN ev :
    ev[k].e = "conn.fail" => CountEv(ev, "conn.throw") = 1 /\ ~connected

\* ------------------------------------------- the inbound demultiplexer
\* a frame arrives on the open connection: onMessage publishes its events
Receive(f) ==
  /\ frame = NoFrame
  /\ frame' = f
  /\ published' = OnMessage(f)
  /\ UNCHANGED <<clientVars, transportVars, coordVars, hookVars, uiVars, trayVars,
                 kcVars, mq, mounted, envVars, ev, sendVars, groundVars,
                 captureVars, listenVars, playVars>>

\* the listeners have run; the client waits for the next frame
Delivered ==
  /\ frame # NoFrame
  /\ frame' = NoFrame
  /\ published' = <<>>
  /\ UNCHANGED <<clientVars, transportVars, coordVars, hookVars, uiVars, trayVars,
                 kcVars, mq, mounted, envVars, ev, sendVars, groundVars,
                 captureVars, listenVars, playVars>>

\* the transport's message callback, one frame at a time
ReceiveAny == frame = NoFrame /\ \E f \in Frames : Receive(f)

NextDemux ==
  \/ ReceiveAny
  \/ Delivered

SpecDemux == Init /\ [][NextDemux]_vars

\* ------------------------------------------------ claims on the demultiplexer
\* the names of the events published for the frame, log events left out
Names(s) == [k \in DOMAIN s |-> s[k].e]
PublishedNames == Names(SelectSeq(published, LAMBDA x : x.e # "log"))
Publishes(e) == \E k \in DOMAIN PublishedNames : PublishedNames[k] = e

HasPriorityField(f) == f.setupComplete \/ f.toolCall \/ f.toolCallCancellation

MarkedInterrupted == frame # NoFrame /\ frame.sc.present /\ frame.sc.interrupted = "true"

InterruptedOnly ==
  /\ Len(SelectSeq(PublishedNames, LAMBDA e : e = "interrupted")) = 1
  /\ ~Publishes("turncomplete") /\ ~Publishes("audio") /\ ~Publishes("content")

\* C9 as stated: every frame whose serverContent is marked interrupted publishes
\* interrupted and publishes no turncomplete, audio or content.
C9_InterruptedAnyFrame == MarkedInterrupted => InterruptedOnly

\* C9: a frame that carries none of setupComplete, toolCall and
\* toolCallCancellation and whose serverContent is marked interrupted publishes
\* interrupted exactly once and no turncomplete, audio or content; a frame that
\* carries one of those fields publishes no turncomplete, audio or content either.
C9_InterruptedServerContent ==
  MarkedInterrupted =>
    /\ ~HasPriorityField(frame) => InterruptedOnly
    /\ ~Publishes("turncomplete") /\ ~Publishes("audio") /\ ~Publishes("content")

\* an interrupted server-content frame that is also marked turn-complete and
\* carries a decodable audio part and a text part
C9_Witness ==
  /\ MarkedInterrupted /\ ~HasPriorityField(frame)
  /\ frame.sc.turnComplete = "true"
  /\ \E i, j \in DOMAIN frame.sc.parts :
       /\ IsAudioPart(frame.sc.parts[i]) /\ Decodable(frame.sc.parts[i].data)
       /\ frame.sc.parts[j] = TextPart
  /\ Publishes("interrupted")

\* C10: a frame carrying setupComplete publishes only setupcomplete; otherwise
\* one carrying toolCall publishes only toolcall; otherwise one carrying
\* toolCallCancellation publishes only toolcallcancellation; nothing else
\* (log events aside) is published for it, whatever serverContent it carries.
C10_PrioritizedExclusive ==
  frame # NoFrame =>
    /\ frame.setupComplete => PublishedNames = <<"setupcomplete">>
    /\ (~frame.setupComplete /\ frame.toolCall) => PublishedNames = <<"toolcall">>
    /\ (~frame.setupComplete /\ ~frame.toolCall /\ frame.toolCallCancellation) =>
          PublishedNames = <<"toolcallcancellation">>

\* a tool-call frame that also carries a cancellation and a server content with
\* grounding chunks, a turn-complete mark and parts
C10_Witness ==
  /\ frame # NoFrame
  /\ ~frame.setupComplete /\ frame.toolCall /\ frame.toolCallCancellation
  /\ frame.sc.present /\ frame.sc.chunks > 0 /\ frame.sc.turnComplete = "true"
  /\ frame.sc.parts # <<>>
  /\ PublishedNames = <<"toolcall">>

\* ------------------------------------------------- audio and content parts
PublishedOf(e) == SelectSeq(published, LAMBDA x : x.e = e)
Payloads(s) == [k \in DOMAIN s |-> s[k].a]

\* a server-content frame whose parts are processed: no higher-priority field,
\* not interrupted, a model turn with a parts list
PartsProcessed ==
  /\ frame # NoFrame /\ ~HasPriorityField(frame)
  /\ frame.sc.present /\ ~IsInterrupted(frame.sc) /\ frame.sc.modelTurn = "parts"

\* the part's MIME type begins with 'audio/pcm'
HasPcmType(part) == part.inline /\ part.pcm
HasPayload(part) == part.data # 0
FailsToDecode(part) == HasPcmType(part) /\ HasPayload(part) /\ ~Decodable(part.data)
Decodes(part) == HasPcmType(part) /\ HasPayload(part) /\ Decodable(part.data)

DecodedBytes(parts) == [k \in DOMAIN parts |-> DecodedLength(parts[k].data)]
NonPcm(parts) == SelectSeq(parts, LAMBDA x : ~HasPcmType(x))

\* C11: in a frame with an audio part whose payload fails to decode, no error
\* event is published, the audio events are those of the audio parts that do
\* decode, in part order and with their decoded bytes (none for the failing
\* part), and if the frame has non-audio parts one content event is published
\* that carries all of them in their order.
C11_DecodeFailureDropsOnePart ==
  (PartsProcessed /\ \E k \in DOMAIN frame.sc.parts : FailsToDecode(frame.sc.parts[k])) =>
    /\ PublishedOf("error") = <<>>
    /\ Payloads(PublishedOf("audio")) = DecodedBytes(SelectSeq(frame.sc.parts, Decodes))
    /\ NonPcm(frame.sc.parts) # <<>> =>
          /\ Len(PublishedOf("content")) = 1
          /\ NonPcm(PublishedOf("content")[1].a) = NonPcm(frame.sc.parts)

\* the failing audio part comes first, then an audio part that decodes and a text
\* part: one audio event and one content event are published
C11_Witness ==
  /\ PartsProcessed /\ Len(frame.sc.parts) = 3
  /\ FailsToDecode(frame.sc.parts[1])
  /\ Decodes(frame.sc.parts[2])
  /\ frame.sc.parts[3] = TextPart
  /\ Len(PublishedOf("audio")) = 1 /\ Len(PublishedOf("content")) = 1

\* C12: a frame whose parts are all PCM-audio parts with decodable payloads
\* publishes one audio event per part, in part order, each with the decoded
\* bytes, and no content event.
C12_AllAudioFrame ==
  (/\ PartsProcessed
   /\ \A k \in DOMAIN frame.sc.parts :
        HasPcmType(frame.sc.parts[k]) /\ Decodable(frame.sc.parts[k].data)) =>
    /\ Payloads(PublishedOf("audio")) = DecodedBytes(frame.sc.parts)
    /\ PublishedOf("content") = <<>>

\* C13: the content event, if any, carries exactly the parts whose MIME type does
\* not begin with the PCM audio prefix, in their order, and is published exactly
\* when there is such a part; a PCM part never appears in it, whatever its payload.
C13_ContentHasNoPcmPart ==
  PartsProcessed =>
    /\ Len(PublishedOf("content")) = (IF NonPcm(frame.sc.parts) # <<>> THEN 1 ELSE 0)
    /\ \A k \in DOMAIN PublishedOf("content") :
         PublishedOf("content")[k].a = NonPcm(frame.sc.parts)

\* ================================================ the Session Client alone
\* GenAILiveClient as its contract sees it: its public methods called in any
\* order by any caller (also by a listener of the open event, before the awaited
\* open has returned the handle), and the callbacks of its transports.
appVars ==
  <<coordVars, hookVars, uiVars, trayVars, kcVars, mq, mounted, envVars, demuxVars, groundVars,
    captureVars, listenVars, playVars>>

\* connect(config) called directly on the client
ClientConnectCall(c) ==
  /\ IF ClientConnectRejects
     THEN /\ ev' = <<Ev("call", "connect", c), Ev("return", "connect", "false")>>
          /\ UNCHANGED <<clientVars, transportVars>>
     ELSE /\ FreeTransports # {}
          /\ status' = "connecting"
          /\ tstate' = [tstate EXCEPT ![NewTransport] = "opening"]
          /\ tcfg' = [tcfg EXCEPT ![NewTransport] = c]
          /\ twaiter' = [twaiter EXCEPT ![NewTransport] = DirectCaller]
          /\ UNCHANGED session
          /\ ev' = <<Ev("call", "connect", c), Ev("open", NewTransport, c)>>
  /\ UNCHANGED <<appVars, sendVars>>

\* a connect() whose live.connect has resolved and whose continuation has not run yet
ResumePending(t) == tstate[t] \in {"open", "closing"} /\ twaiter[t] = DirectCaller
\* the transport's callbacks are tasks: the continuation of an await runs before them
CallbackRuns == \A t \in Transports : ~ResumePending(t)

\* the open callback: onOpen
ClientOnOpen(t) ==
  /\ CallbackRuns
  /\ tstate[t] = "opening"
  /\ tstate' = [tstate EXCEPT ![t] = "open"]
  /\ status' = "connected"
  /\ ev' = <<Ev("ev.open", t, 0)>>
  /\ UNCHANGED <<session, tcfg, twaiter, appVars, sendVars>>

\* connect() resumes after the await: the handle is stored, true is returned
ClientConnectResumes(t) ==
  /\ ResumePending(t)
  /\ session' = t
  /\ status' = "connected"
  /\ twaiter' = [twaiter EXCEPT ![t] = NoCaller]
  /\ ev' = <<Ev("return", "connect", ClientConnectResult(TRUE))>>
  /\ UNCHANGED <<tstate, tcfg, appVars, sendVars>>

\* live.connect rejects: the catch of connect()
ClientOpenFails(t) ==
  /\ CallbackRuns
  /\ tstate[t] = "opening"
  /\ tstate' = [tstate EXCEPT ![t] = "none"]
  /\ tcfg' = [tcfg EXCEPT ![t] = EmptyConfig]
  /\ twaiter' = [twaiter EXCEPT ![t] = NoCaller]
  /\ status' = "disconnected"
  /\ session' = 0
  /\ ev' = <<Ev("conn.fail", t, 0), Ev("return", "connect", ClientConnectResult(FALSE))>>
  /\ UNCHANGED <<appVars, sendVars>>

DisconnectResetsAfterClose(throws) == ~throws

\* the finally block of disconnect() runs whether close() returned or threw
DisconnectResets(throws) == TRUE

\* disconnect() called directly on the client; throws: the close() call throws
ClientDisconnectCall(throws) ==
  /\ throws => HasHandle
  /\ tstate' = IF HasHandle /\ ~throws THEN [tstate EXCEPT ![session] = "closing"] ELSE tstate
  /\ session' = IF DisconnectResets(throws) THEN 0 ELSE session
  /\ status' = IF DisconnectResets(throws) THEN "disconnected" ELSE status
  /\ ev' = <<Ev("call", "disconnect", 0)>>
             \o (IF HasHandle THEN <<Ev("close", session, IF throws THEN 1 ELSE 0)>> ELSE <<>>)
             \o <<Ev("log", "client.close", 0), Ev("return", "disconnect", "true")>>
  /\ UNCHANGED <<tcfg, twaiter, appVars, sendVars>>

\* the socket of an open transport starts to close on the remote side: its
\* readyState leaves OPEN before the close callback is delivered
RemoteClosing(t) ==
  /\ tstate[t] = "open"
  /\ tstate' = [tstate EXCEPT ![t] = "closing"]
  /\ ev' = <<>>
  /\ UNCHANGED <<clientVars, tcfg, twaiter, appVars, sendVars>>

\* onError as it would be if it also shut the session down
ClientOnErrorClosing(t) ==
  /\ CallbackRuns
  /\ tstate[t] \in {"open", "closing"}
  /\ ClientDisconnect
  /\ ev' = <<Ev("log", "server.error", 0), Ev("error", 0, t)>> \o ClientDisconnectEvents
  /\ UNCHANGED <<tcfg, twaiter, appVars, sendVars>>

\* the error callback: onError
ClientOnError(t) ==
  /\ CallbackRuns
  /\ tstate[t] \in {"open", "closing"}
  /\ status' = "disconnected"
  /\ ev' = <<Ev("log", "server.error", 0), Ev("error", 0, t)>>
  /\ UNCHANGED <<session, transportVars, appVars, sendVars>>

\* ------------------------------------------------------- outbound frames
SendAcceptedOnStatus == status = "connected"

\* the guard of send()
SendAccepted == status = "connected" /\ session # 0

\* {turns, turnComplete}: the turnComplete parameter is true unless given
ClientContentFrame(tc) == [kind |-> "clientContent", turnComplete |-> (tc # "false")]

\* send(parts, turnComplete) with tc absent, true or false; throws: the
\* transport's sendClientContent throws, which send() does not catch
ClientSend(tc, throws) ==
  /\ throws => SendAccepted
  /\ ev' = <<Ev("call", "send", tc)>>
             \o (IF SendAccepted
                 THEN <<Ev("tx", session, ClientContentFrame(tc))>>
                        \o (IF throws THEN <<Ev("raise", "send", 0)>>
                            ELSE <<Ev("log", "client.send", 0)>>)
                 ELSE <<Ev("error", 3, 0)>>)
  /\ UNCHANGED <<clientVars, transportVars, appVars, sendVars>>

\* session.readyState === WebSocket.OPEN
Ready(t) == tstate[t] = "open"

RealtimeAcceptedUnready == status = "connected" /\ session # 0

\* the two guards of sendRealtimeInput(): status and handle, then readiness
RealtimeAccepted == status = "connected" /\ session # 0 /\ Ready(session)

\* the chunks of a batch are the next n captured ones
Batch(n) == [k \in 1..n |-> captured + k]

\* the loop as it would be without the try/catch: the first failing send ends it
RECURSIVE RealtimeAttemptsAbort(_, _)
RealtimeAttemptsAbort(batch, fails) ==
  IF batch = <<>> THEN <<>>
  ELSE IF Head(batch) \in fails
  THEN <<Ev("tx.media", Head(batch), FALSE), Ev("raise", "sendRealtimeInput", 0)>>
  ELSE <<Ev("tx.media", Head(batch), TRUE)>> \o RealtimeAttemptsAbort(Tail(batch), fails)

\* chunks.forEach: one sendRealtimeInput({media: chunk}) per chunk, each in its
\* own try/catch; fails are the chunks whose send throws
RECURSIVE RealtimeAttempts(_, _)
RealtimeAttempts(batch, fails) ==
  IF batch = <<>> THEN <<>>
  ELSE <<Ev("tx.media", Head(batch), Head(batch) \notin fails)>>
         \o RealtimeAttempts(Tail(batch), fails)

\* sendRealtimeInput(chunks) with the next n captured chunks (ControlTray's
\* onData calls it with one chunk per recorder event)
ClientSendRealtimeInput(n, fails) ==
  /\ captured + n <= MaxCaptured
  /\ captured' = captured + n
  /\ fails # {} => RealtimeAccepted
  /\ LET tx == IF RealtimeAccepted THEN RealtimeAttempts(Batch(n), fails) ELSE <<>> IN
       ev' = <<Ev("call", "sendRealtimeInput", n)>> \o tx
               \o (IF RealtimeAccepted /\ CountEv(tx, "raise") = 0
                   THEN <<Ev("log", "client.realtimeInput", 0)>> ELSE <<>>)
  /\ UNCHANGED <<clientVars, transportVars, appVars>>

\* the guard of sendToolResponse()
ToolResponseAccepted == status = "connected" /\ session # 0

AnyFunctionResponses(k) == k >= 0

\* functionResponses && functionResponses.length; k is -1 without the list
HasFunctionResponses(k) == k > 0

\* sendToolResponse(toolResponse) with k function responses
ClientSendToolResponse(k) ==
  /\ ev' = <<Ev("call", "sendToolResponse", k)>>
             \o (IF ~ToolResponseAccepted THEN <<Ev("error", 3, 0)>>
                 ELSE (IF HasFunctionResponses(k)
                       THEN <<Ev("tx", session, [kind |-> "toolResponse", n |-> k])>>
                       ELSE <<>>) \o <<Ev("log", "client.toolResponse", 0)>>)
  /\ UNCHANGED <<clientVars, transportVars, appVars, sendVars>>

\* -------------------------------------------------------- close handling
\* a close reason is a text made of the marker "ERROR]", the word "error" in
\* lower case and other characters; the marker counts as one position
ReasonTokens == {"ERROR]", "error", "c"}
Reasons == UNION {[1..n -> ReasonTokens] : n \in 0..MaxReason}
CloseEvent(r) == [type |-> "close", reason |-> r]

\* reason.toLowerCase().includes('error')
MentionsError(r) == \E k \in DOMAIN r : r[k] \in {"ERROR]", "error"}

\* reason.indexOf('ERROR]'), counted from 0; -1 if absent
PreludeIndex(r) ==
  IF \E k \in DOMAIN r : r[k] = "ERROR]"
  THEN (CHOOSE k \in DOMAIN r : r[k] = "ERROR]" /\ \A j \in 1..(k - 1) : r[j] # "ERROR]") - 1
  ELSE -1

\* the reason written to the log: what follows the marker and one more character
LoggedReason(r) ==
  IF MentionsError(r) /\ PreludeIndex(r) > 0
  THEN SubSeq(r, PreludeIndex(r) + 3, Len(r))
  ELSE r

OnCloseEventsProcessed(t, e) ==
  <<Ev("log", "server.close", LoggedReason(e.reason)),
    Ev("ev.close", t, [e EXCEPT !.reason = LoggedReason(e.reason)])>>

\* what onClose publishes: the log entry with the processed reason, then close
\* with the event it was called with
OnCloseEvents(t, e) ==
  <<Ev("log", "server.close", LoggedReason(e.reason)), Ev("ev.close", t, e)>>

\* the close callback of transport t with close event e: onClose
ClientOnClose(t, e) ==
  /\ CallbackRuns
  /\ tstate[t] \in {"open", "closing"}
  /\ tstate' = [tstate EXCEPT ![t] = "none"]
  /\ tcfg' = [tcfg EXCEPT ![t] = EmptyConfig]
  /\ status' = "disconnected"
  /\ session' = 0
  /\ ev' = <<Ev("call", "onClose", e)>> \o OnCloseEvents(t, e)
  /\ UNCHANGED <<twaiter, appVars, sendVars>>

NextClient ==
  \/ ClientConnectCall(desired)
  \/ \E t \in Transports : ClientOnOpen(t)
  \/ \E t \in Transports : ClientConnectResumes(t)
  \/ \E t \in Transports : ClientOpenFails(t)
  \/ \E throws \in BOOLEAN : ClientDisconnectCall(throws)
  \/ \E t \in Transports : RemoteClosing(t)
  \/ \E t \in Transports : ClientOnError(t)
  \/ \E t \in Transports, r \in Reasons : ClientOnClose(t, CloseEvent(r))
  \/ \E tc \in Flags, throws \in BOOLEAN : ClientSend(tc, throws)
  \/ \E n \in 0..MaxCaptured : \E fails \in SUBSET {captured + k : k \in 1..n} :
       ClientSendRealtimeInput(n, fails)
  \/ \E k \in -1..MaxResponses : ClientSendToolResponse(k)

SpecClient == Init /\ [][NextClient]_vars

\* ------------------------------------------- claims on the Session Client
\* the step is a call of the named method (or callback) of the client
Called(name) == ev' # <<>> /\ ev'[1].e = "call" /\ ev'[1].a = name
Argument == ev'[1].b
WasCalled(name) == ev # <<>> /\ ev[1].e = "call" /\ ev[1].a = name

IdsOf(s) == [k \in DOMAIN s |-> s[k].a]

\* C14: sendRealtimeInput called when status is not connected, or without a
\* handle, or when the transport's readyState is not OPEN, hands nothing to the
\* transport, publishes no error and does not raise; nothing is kept for later:
\* a chunk is handed to the transport only by the call that carries it.
C14_UnreadyRealtimeDropped ==
  [][/\ (Called("sendRealtimeInput")
           /\ ~(status = "connected" /\ session # 0 /\ tstate[session] = "open")) =>
          /\ CountEv(ev', "tx.media") = 0 /\ CountEv(ev', "tx") = 0
          /\ CountEv(ev', "error") = 0 /\ CountEv(ev', "raise") = 0
          /\ UNCHANGED <<status, session, tstate>>
     /\ \A k \in DOMAIN ev' :
          ev'[k].e = "tx.media" =>
             /\ Called("sendRealtimeInput")
             /\ ev'[k].a > captured /\ ev'[k].a <= captured']_vars

\* a chunk was dropped while status was connected and the handle held, because
\* the socket had left OPEN
C14_Witness ==
  /\ WasCalled("sendRealtimeInput") /\ ev[1].b > 0 /\ Len(ev) = 1
  /\ status = "connected" /\ session # 0 /\ tstate[session] = "closing"

\* C15: sendRealtimeInput called while connected with a ready transport attempts
\* every chunk of the batch exactly once, in batch order, whichever sends
\* failed, and does not raise; the chunks of a call are the ones captured since
\* the last call, so chunks reach the transport in capture order across calls.
C15_EveryChunkAttemptedInOrder ==
  [][(Called("sendRealtimeInput")
        /\ status = "connected" /\ session # 0 /\ tstate[session] = "open") =>
       /\ IdsOf(SelectEv(ev', "tx.media")) = [k \in 1..Argument |-> captured + k]
       /\ CountEv(ev', "raise") = 0
       /\ captured' = captured + Argument]_vars

\* the first chunk of a batch failed to send and the second was still attempted
C15_Witness ==
  /\ WasCalled("sendRealtimeInput") /\ ev[1].b = 2
  /\ CountEv(ev, "tx.media") = 2
  /\ ~SelectEv(ev, "tx.media")[1].b /\ SelectEv(ev, "tx.media")[2].b

\* C16: send() with status connected and a handle hands exactly one client-content
\* frame {turns, turnComplete} to the transport (turnComplete true unless given)
\* and publishes no error; in every other state it transmits nothing and
\* publishes exactly one error event; status, handle and transports do not
\* change and no connection is opened.
C16_SendOneFrameOrOneError ==
  [][Called("send") =>
       /\ UNCHANGED <<status, session, tstate>>
       /\ CountEv(ev', "open") = 0
       /\ IF status = "connected" /\ session # 0
          THEN /\ CountEv(ev', "tx") = 1
               /\ SelectEv(ev', "tx")[1].a = session
               /\ SelectEv(ev', "tx")[1].b.kind = "clientContent"
               /\ SelectEv(ev', "tx")[1].b.turnComplete =
                     (IF Argument = "absent" THEN TRUE ELSE Argument = "true")
               /\ CountEv(ev', "error") = 0
          ELSE /\ CountEv(ev', "tx") = 0
               /\ CountEv(ev', "error") = 1]_vars

\* send() was called when the open callback had set status to connected and the
\* awaited open had not yet returned the handle
C16_Witness ==
  /\ WasCalled("send") /\ CountEv(ev, "error") = 1
  /\ status = "connected" /\ session = 0

\* C17: sendToolResponse hands a tool-response frame to the transport only when
\* status is connected, a handle is held and the response has at least one
\* function response; the frame carries those responses.
C17_ToolResponseGuarded ==
  [][Called("sendToolResponse") =>
       /\ CountEv(ev', "tx") <= 1
       /\ CountEv(ev', "tx") = 1 =>
            /\ status = "connected" /\ session # 0 /\ Argument >= 1
            /\ SelectEv(ev', "tx")[1].b = [kind |-> "toolResponse", n |-> Argument]]_vars

\* a response with an empty list of function responses was given while connected:
\* it was logged and not transmitted
C17_Witness ==
  /\ WasCalled("sendToolResponse") /\ ev[1].b = 0
  /\ status = "connected" /\ session # 0
  /\ CountEv(ev, "tx") = 0 /\ CountEv(ev, "log") = 1

\* C18: the client's disconnect() ends with the handle cleared and status
\* disconnected, with or without a handle and whether or not close() throws; it
\* returns normally; called in that state it changes nothing and calls no close.
C18_DisconnectIdempotent ==
  [][Called("disconnect") =>
       /\ status' = "disconnected" /\ session' = 0
       /\ CountEv(ev', "raise") = 0 /\ CountEv(ev', "return") = 1
       /\ CountEv(ev', "close") <= 1
       /\ (status = "disconnected" /\ session = 0) =>
            /\ CountEv(ev', "close") = 0
            /\ UNCHANGED <<status, session, tstate>>]_vars

\* disconnect() was called with a handle whose close() threw
C18_Witness ==
  /\ WasCalled("disconnect")
  /\ \E k \in DOMAIN ev : ev[k].e = "close" /\ ev[k].b = 1
  /\ status = "disconnected" /\ session = 0

\* C19: when the open attempt of an accepted connect() fails, connect() returns
\* false, status is disconnected and the handle cleared, and the client
\* publishes no event.
C19_FailedOpenReturnsFalse ==
  [][CountEv(ev', "conn.fail") > 0 =>
       /\ status' = "disconnected" /\ session' = 0
       /\ CountEv(ev', "return") = 1
       /\ SelectEv(ev', "return")[1].b = "false"
       /\ \A k \in DOMAIN ev' : ev'[k].e \notin {"ev.open", "ev.close", "error", "log"}]_vars

\* the open attempt of a connect() failed
C19_Witness ==
  /\ CountEv(ev, "conn.fail") = 1
  /\ status = "disconnected" /\ session = 0

\* C20: on a close callback status becomes disconnected, the handle is cleared
\* and exactly one close event is published, carrying the close event the
\* callback was given, unmodified.
C20_CloseResetsAndPublishesOriginal ==
  [][Called("onClose") =>
       /\ status' = "disconnected" /\ session' = 0
       /\ CountEv(ev', "ev.close") = 1
       /\ SelectEv(ev', "ev.close")[1].b = Argument]_vars

\* a close event whose reason has text before the marker: the log entry has the
\* processed reason, the published event the original one
C20_Witness ==
  /\ WasCalled("onClose")
  /\ LoggedReason(ev[1].b.reason) # ev[1].b.reason
  /\ SelectEv(ev, "log")[1].b = LoggedReason(ev[1].b.reason)
  /\ SelectEv(ev, "ev.close")[1].b = ev[1].b

\* C21: on a transport error callback status becomes disconnected and exactly
\* one error event is published; the handle and the transports are left as they
\* were and the handler calls no close.
C21_ErrorKeepsHandle ==
  [][(\E k \in DOMAIN ev' : ev'[k].e = "error" /\ ev'[k].a = 0) =>
       /\ status' = "disconnected"
       /\ CountEv(ev', "error") = 1
       /\ session' = session /\ tstate' = tstate
       /\ CountEv(ev', "close") = 0]_vars

\* an error was reported on the transport of the held handle: the handle is
\* still held and the transport still open while status is disconnected
C21_Witness ==
  /\ \E k \in DOMAIN ev : ev[k].e = "error" /\ ev[k].a = 0 /\ ev[k].b = session
  /\ status = "disconnected" /\ session # 0 /\ tstate[session] = "open"

\* the n chunks that arrive next
NextChunks(n) == [k \in 1..n |-> Len(grounding) + k]

GroundingEvent(s) == \E k \in DOMAIN s : s[k].e = "grounding"
OpenEvent(s) == \E k \in DOMAIN s : s[k].e = "ev.open"
\* a coordinator connect() call that got past the check of the closure's connected
ConnectCallPassed(s) == \E k \in DOMAIN s : s[k].e \in {"open", "conn.false"}

\* C22 (amended): the grounding list is the concatenation, in arrival order, of
\* the chunk lists received since it was last emptied; it is emptied by every
\* open event and by every connect() call that gets past the check of the
\* closure's connected, whether or not the client then accepts the call, and by
\* nothing else.
C22_GroundingAccumulates ==
  [][/\ grounding' = [k \in 1..Len(grounding') |-> k]
     /\ GroundingEvent(ev') =>
          grounding' = grounding \o NextChunks(Len(grounding') - Len(grounding))
     /\ OpenEvent(ev') => grounding' = <<>>
     /\ (ConnectCallPassed(ev') /\ ~GroundingEvent(ev')) => grounding' = <<>>
     /\ (~GroundingEvent(ev') /\ ~OpenEvent(ev') /\ ~ConnectCallPassed(ev'))
          => grounding' = grounding]_vars

\* C22 as stated: the list is emptied on open events only
C22_ResetOnlyOnOpen ==
  [][/\ GroundingEvent(ev') =>
          grounding' = grounding \o NextChunks(Len(grounding') - Len(grounding))
     /\ OpenEvent(ev') => grounding' = <<>>
     /\ (~GroundingEvent(ev') /\ ~OpenEvent(ev')) => grounding' = grounding]_vars

\* the chunks of a grounding event were appended to the chunks of an earlier one
C22_Witness ==
  /\ GroundingEvent(ev)
  /\ status = "connected"
  /\ Len(grounding) > ev[1].a

\* -------------------------------------------------- order of publication
\* the place of an event in the processing of a server-content frame
Rank(e) ==
  IF e = "grounding" THEN 1
  ELSE IF e \in {"interrupted", "turncomplete"} THEN 2
  ELSE IF e = "audio" THEN 3
  ELSE IF e = "content" THEN 4
  ELSE 0

CountName(e) == Len(SelectSeq(PublishedNames, LAMBDA x : x = e))

ServerContentFrame == frame # NoFrame /\ ~HasPriorityField(frame) /\ frame.sc.present

\* the events of the frame are in the order grounding, interrupted or
\* turncomplete, audio in part order, content
InFrameOrder ==
  ServerContentFrame =>
    /\ \A i, j \in DOMAIN PublishedNames :
         i < j => Rank(PublishedNames[i]) > 0 /\ Rank(PublishedNames[i]) <= Rank(PublishedNames[j])
    /\ \A i \in DOMAIN PublishedNames : Rank(PublishedNames[i]) > 0
    /\ CountName("grounding") = (IF frame.sc.chunks > 0 THEN 1 ELSE 0)
    /\ CountName("interrupted") + CountName("turncomplete") <= 1
    /\ CountName("content") <= 1
    /\ Payloads(PublishedOf("grounding")) = (IF frame.sc.chunks > 0 THEN <<frame.sc.chunks>> ELSE <<>>)
    /\ PartsProcessed =>
         Payloads(PublishedOf("audio")) = DecodedBytes(SelectSeq(frame.sc.parts, Decodes))

\* C23: the events of a frame are published in the step in which the frame
\* arrives, when nothing of an earlier frame is left to publish, so the events of
\* a sequence of frames are the per-frame sequences in arrival order; within a
\* server-content frame the order is grounding (if it has chunks), then
\* interrupted or turncomplete, then the audio events in part order, then content.
C23_PublicationOrder ==
  [][frame' # NoFrame => (frame = NoFrame /\ published = <<>> /\ InFrameOrder')]_vars

\* a frame with grounding chunks, a turn-complete mark, two audio parts of
\* different lengths and a text part between them
C23_Witness ==
  /\ ServerContentFrame /\ PartsProcessed
  /\ Len(frame.sc.parts) = 3
  /\ frame.sc.parts[2] = TextPart
  /\ Payloads(PublishedOf("audio")) = <<1, 2>>
  /\ PublishedNames = <<"grounding", "turncomplete", "audio", "audio", "content">>

\* ------------------------------------------------ configuration changes
OpensOrCloses(s) == \E k \in DOMAIN s : s[k].e \in {"open", "close"}
ReconnectBegins == ~isReconnecting /\ isReconnecting'

\* C24: a step that replaces the held configuration while the coordinator is
\* not connected calls neither the transport's open nor its close, calls no
\* disconnect and starts no reconnect; a transport is opened only by a connect
\* call of the tray's handleConnect or of a reconnect, and a reconnect begins
\* only while connected.
C24_SetConfigOpensNothing ==
  [][/\ (~connected /\ config' # config) =>
          /\ ~OpensOrCloses(ev') /\ DiscCalls(ev') = <<>>
          /\ clientVars' = clientVars /\ transportVars' = transportVars
          /\ ~ReconnectBegins /\ rc' = rc
     /\ ReconnectBegins => connected
     /\ \A k \in DOMAIN ev' :
          ev'[k].e = "open" => twaiter'[ev'[k].a] \in {TrayCaller} \cup RcIds]_vars

\* the only input so far was a settings change, made while disconnected: the
\* new configuration is held, nothing was opened and no reconnect runs
C24_Witness ==
  /\ nInputs = 1 /\ nFaults = 0
  /\ ~connected /\ status = "disconnected"
  /\ config = desired /\ config \notin {EmptyConfig, 1}
  /\ \A t \in Transports : tstate[t] = "none"
  /\ ~isReconnecting

\* ------------------------------------------------------ microphone failure
MicStartFailed(s) == \E k \in DOMAIN s : s[k].e = "error" /\ s[k].a = 4

\* C25: when starting the microphone fails while the client is connected, no
\* coordinator disconnect is called and the client status stays connected.
C25_MicFailureKeepsSession ==
  [][(MicStartFailed(ev') /\ status = "connected") =>
       (DiscCalls(ev') = <<>> /\ status' = "connected")]_vars

\* ------------------------------------------------ frames without parts
\* the server content carries no model-generated part: no model turn, a model
\* turn without a parts list, or an empty parts list
CarriesNoParts(sc) == sc.modelTurn # "parts" \/ sc.parts = <<>>

\* C26: a server-content frame that carries no model-generated parts publishes
\* no audio event and no content event.
C26_NoPartsNoContent ==
  (ServerContentFrame /\ CarriesNoParts(frame.sc)) =>
    (~Publishes("audio") /\ ~Publishes("content"))

\* ------------------------------------------------------- one transport
\* the transports that are open or being opened (a transport whose close was
\* called or has begun is not counted)
LiveTransports == {t \in Transports : tstate[t] \in {"opening", "open"}}

\* C27: at any time at most one transport is open or being opened.
C27_AtMostOneTransport == Cardinality(LiveTransports) <= 1

\* ------------------------------------------------------ Capture Pipeline
\* start(): idle -> starting with one device acquisition; a call while a start
\* is in flight joins it, a call while recording changes nothing
RecorderStart ==
  IF recState = "idle"
  THEN /\ starts < MaxStarts
       /\ recState' = "starting"
       /\ starts' = starts + 1
       /\ UNCHANGED <<stopPending, stream>>
  ELSE UNCHANGED <<recState, starts, stopPending, stream>>

\* the teardown: the audio graph is disconnected, the device stream halted and
\* released; an internal error is logged and goes no further
Teardown ==
  /\ recState' = "idle"
  /\ stream' = FALSE
  /\ stopPending' = FALSE

StopNeverDeferred == FALSE

\* stop() finds a start in flight
StopDeferred == recState = "starting"

\* stop(): deferred behind a start in flight, otherwise the teardown at once
RecorderStop ==
  /\ IF StopDeferred
     THEN stopPending' = TRUE /\ UNCHANGED <<recState, stream>>
     ELSE Teardown
  /\ UNCHANGED starts

EffectNeverStops(want) == FALSE

\* the else branch of ControlTray's recorder effect
EffectStops(want) == ~want

\* ControlTray's recorder effect runs in a commit where connected && !muted is
\* want: the cleanup of the previous run removes the data listener; with want
\* the listener is added and start() called, else stop() is called
RecorderEffect(want, fails) ==
  /\ IF want THEN RecorderStart
     ELSE IF EffectStops(want) THEN RecorderStop
     ELSE UNCHANGED <<recState, stopPending, stream, starts>>
  /\ listening' = want
  /\ ev' = <<Ev("effect", want, recState)>>
            \o (IF EffectStops(want) THEN <<Ev("rec.stop", recState, 0)>> ELSE <<>>)
            \o (IF EffectStops(want) /\ ~StopDeferred /\ fails
                THEN <<Ev("log", "recorder.teardown", 0)>> ELSE <<>>)

captureEnv ==
  <<clientVars, transportVars, coordVars, config, rConfig, connectCb, uiVars, trayVars,
    kcVars, mq, mounted, envVars, demuxVars, groundVars, sendVars, listenVars, playVars>>

\* the mute button: setMuted(!muted), the effect runs in the commit
ToggleMute(fails) ==
  /\ muted' = ~muted
  /\ RecorderEffect(connected /\ ~muted', fails)
  /\ UNCHANGED <<connected, rConnected, captureEnv>>

\* a commit with a new connected (the session opened, closed or was torn down)
ConnectedChanges(fails) ==
  /\ connected' = ~connected
  /\ rConnected' = connected'
  /\ RecorderEffect(connected' /\ ~muted, fails)
  /\ UNCHANGED <<muted, captureEnv>>

\* a commit in which only the client or the disconnect callback has changed
EffectReruns(fails) ==
  /\ RecorderEffect(connected /\ ~muted, fails)
  /\ UNCHANGED <<muted, connected, rConnected, captureEnv>>

\* the start in flight settles: the stream was acquired (ok) or the acquisition
\* failed; a deferred stop is performed at once; the caller's catch publishes the
\* error of a failed start
StartSettles(ok) ==
  /\ recState = "starting"
  /\ IF stopPending THEN Teardown
     ELSE /\ recState' = IF ok THEN "recording" ELSE "idle"
          /\ stream' = ok
          /\ UNCHANGED stopPending
  /\ ev' = <<Ev("rec.settled", ok, stopPending)>>
            \o (IF ok THEN <<>> ELSE <<Ev("error", 4, 0)>>)
  /\ UNCHANGED <<starts, listening, muted, connected, rConnected, captureEnv>>

\* the recorder emits an encoded frame while recording: the registered
\* listener onData gets it
DataFrame ==
  /\ recState = "recording" /\ listening
  /\ captured < MaxCaptured
  /\ captured' = captured + 1
  /\ ev' = <<Ev("data", captured + 1, 0)>>
  /\ UNCHANGED <<clientVars, transportVars, coordVars, hookVars, uiVars, trayVars, kcVars,
                 mq, mounted, envVars, demuxVars, groundVars, captureVars, listenVars,
                 playVars>>

NextCapture ==
  \/ \E fails \in BOOLEAN : ToggleMute(fails)
  \/ \E fails \in BOOLEAN : ConnectedChanges(fails)
  \/ \E fails \in BOOLEAN : EffectReruns(fails)
  \/ \E ok \in BOOLEAN : StartSettles(ok)
  \/ DataFrame

SpecCapture == Init /\ [][NextCapture]_vars

EffectRan(s) == s # <<>> /\ s[1].e = "effect"
StopCalled(s) == \E k \in DOMAIN s : s[k].e = "rec.stop"
Raised(s) == \E k \in DOMAIN s : s[k].e \in {"raise", "error"}

\* C28: a stop() called while a start is in flight tears nothing down at once:
\* the start stays in flight with the stop pending; when that start settles,
\* with the stream or with a failure, the pipeline is idle with the device
\* stream released and is never recording; the effect calls stop() whenever
\* the connection has dropped or the microphone is muted, and stop() raises
\* nothing; outside a start in flight stop() leaves the pipeline idle at once.
C28_DeferredStop ==
  [][/\ (EffectRan(ev') /\ ~ev'[1].a) => StopCalled(ev')
     /\ (StopCalled(ev') /\ recState = "starting") =>
          (recState' = "starting" /\ stopPending' /\ stream' = stream)
     /\ (StopCalled(ev') /\ recState # "starting") =>
          (recState' = "idle" /\ ~stream' /\ ~stopPending')
     /\ StopCalled(ev') => ~Raised(ev')
     /\ (stopPending /\ recState' # recState) =>
          (recState' = "idle" /\ ~stream' /\ ~stopPending')
     /\ stopPending' => recState' = "starting"
     /\ recState' = "recording" <=> stream']_vars

\* the stream was acquired while a stop was pending: the pipeline is idle and
\* the stream released
C28_Witness ==
  /\ \E k \in DOMAIN ev : ev[k].e = "rec.settled" /\ ev[k].a = TRUE /\ ev[k].b = TRUE
  /\ recState = "idle" /\ ~stream /\ ~stopPending

\* ------------------------------------------- changes during a reconnect
SessionLive == connected /\ status = "connected" /\ session # 0 /\ tstate[session] = "open"

\* a reconnect has just finished after opening a session, and the desired
\* configuration is no longer the one it connected with
FinishedBehind ==
  \E k \in DOMAIN ev :
    /\ ev[k].e = "rc.done" /\ ev[k].b.opens = 1 /\ ~ev[k].b.threw
    /\ ev[k].b.cfg # desired

\* C29: when a reconnect finishes and the desired configuration has changed
\* while it ran, the newer configuration is not lost: the live session does not
\* run it yet, so the held configuration still differs from the desired one and
\* the next run of the effect reconnects (no fault, no modal open).
C29_NewerConfigNotLost ==
  (FinishedBehind /\ SessionLive /\ ~isReconnecting /\ nFaults = 0 /\ ~modal) =>
    (tcfg[session] = desired \/ config # desired)

\* ------------------------------------------------------- modal handling
\* a transport open called by a reconnect
ReconnectOpens(s, w) == \E k \in DOMAIN s : s[k].e = "open" /\ w[s[k].a] \in RcIds

\* C30: while a settings modal is open and stays open, no reconnect opens a
\* transport (no fault has occurred).
C30_NoReconnectUnderModal ==
  [][(modal /\ modal' /\ nFaults = 0) => ~ReconnectOpens(ev', twaiter')]_vars

\* ------------------------------------------------ control-tray operations
\* the connect and disconnect operations started by the control tray that have
\* not settled: awaiting a transport, awaiting a teardown, or with their
\* finally block still queued
TrayPending ==
  Cardinality({t \in Transports : twaiter[t] = TrayCaller})
    + Len(SelectSeq(dwaiters, LAMBDA w : w.who = TrayCaller))
    + Len(SelectSeq(mq, LAMBDA x : x.k \in {"trayFinC", "trayFinD"}))

\* C31: at most one connect or disconnect started by the control tray is
\* pending at a time, and while one is pending isConnecting is set, so that
\* clicks are ignored.
C31_OneTrayOperation ==
  /\ TrayPending <= 1
  /\ TrayPending > 0 => isConnecting

\* --------------------- ControlTray's recorder effects with audioRecorderStarted
recorderEnv ==
  <<session, transportVars, coordVars, config, rConfig, connectCb, uiVars, isConnecting,
    rIsConnecting, connTimer, rConfigReady, micStart, kcVars, mq, mounted, envVars, demuxVars,
    groundVars, playVars>>

\* the condition of the recorder effect in a commit
RecorderWanted(c, st, m, ready) == c /\ st = "connected" /\ ~m /\ ready

CleanupKeepsListener(n) == n

\* the cleanup of the effect's previous run: audioRecorder.off('data', onData)
\* with that run's onData
CleanupOff(n) == IF n > 0 THEN n - 1 ELSE 0

\* the listeners left by the cleanup of the previous run (the off() at the top
\* of the effect names the new onData, or the one the cleanup has just removed)
AfterCleanup == IF listening THEN CleanupOff(dataListeners) ELSE dataListeners

\* a commit of ControlTray with connected c, client.status st and muted m: the
\* cleanup of the previous run, the recorder effect, then the effect that
\* resets audioRecorderStarted when not connected
TrayCommit(c, st, m) ==
  LET want == RecorderWanted(c, st, m, TRUE) IN
    /\ connected' = c /\ rConnected' = c /\ status' = st /\ muted' = m
    /\ configReady' = TRUE
    /\ want => AfterCleanup < MaxListeners
    /\ dataListeners' = AfterCleanup + (IF want THEN 1 ELSE 0)
    /\ listening' = want
    /\ IF want /\ ~recorderStarted THEN RecorderStart
       ELSE IF ~want /\ recorderStarted THEN RecorderStop
       ELSE UNCHANGED <<recState, stopPending, stream, starts>>
    /\ recorderStarted' = (want /\ recorderStarted)
    /\ ev' = <<Ev("commit", want, recorderStarted)>>
    /\ UNCHANGED <<recorderEnv, sendVars, clientListeners, hookBound>>

\* the start in flight settles; then() sets audioRecorderStarted, catch() clears it
RecorderSettles(ok) ==
  /\ recState = "starting"
  /\ IF stopPending THEN Teardown
     ELSE /\ recState' = IF ok THEN "recording" ELSE "idle"
          /\ stream' = ok
          /\ UNCHANGED stopPending
  /\ recorderStarted' = ok
  /\ ev' = <<Ev("rec.settled", ok, stopPending)>>
  /\ UNCHANGED <<starts, listening, muted, dataListeners, clientListeners, hookBound,
                 clientVars, connected, rConnected, configReady, recorderEnv, sendVars>>

\* onData lets a frame through to sendRealtimeInput
OnDataSends == connected /\ status = "connected"

\* the recorder emits a frame: every registered 'data' listener is called with it
RecorderData ==
  /\ recState = "recording"
  /\ captured < MaxCaptured
  /\ captured' = captured + 1
  /\ ev' = [k \in 1..(IF OnDataSends THEN dataListeners ELSE 0) |->
              Ev("tx.media", captured + 1, k)]
  /\ UNCHANGED <<captureVars, listenVars, clientVars, connected, rConnected, configReady,
                 recorderEnv>>

HookOffNothing(n) == n

\* client.off(...) for each event in the cleanup of useLiveApi's effect
HookOff(n) == IF n > 0 THEN n - 1 ELSE 0

\* useLiveApi's effect runs (mount, or a new client): one listener per event
HookEffect ==
  /\ ~hookBound
  /\ clientListeners < MaxListeners
  /\ hookBound' = TRUE
  /\ clientListeners' = clientListeners + 1
  /\ ev' = <<Ev("hook.on", clientListeners + 1, 0)>>
  /\ UNCHANGED <<captureVars, recorderStarted, dataListeners, clientVars, connected,
                 rConnected, configReady, recorderEnv, sendVars>>

\* the cleanup of useLiveApi's effect (unmount, or before its next run)
HookCleanup ==
  /\ hookBound
  /\ hookBound' = FALSE
  /\ clientListeners' = HookOff(clientListeners)
  /\ ev' = <<Ev("hook.off", clientListeners, 0)>>
  /\ UNCHANGED <<captureVars, recorderStarted, dataListeners, clientVars, connected,
                 rConnected, configReady, recorderEnv, sendVars>>

\* the client publishes an event: every listener registered for it is called
ClientEmits(e) ==
  /\ ev' = [k \in 1..clientListeners |-> Ev("handled", e, k)]
  /\ UNCHANGED <<captureVars, listenVars, clientVars, connected, rConnected, configReady,
                 recorderEnv, sendVars>>

NextRecorder ==
  \/ \E c, m \in BOOLEAN : \E st \in {"connected", "disconnected"} : TrayCommit(c, st, m)
  \/ \E ok \in BOOLEAN : RecorderSettles(ok)
  \/ RecorderData
  \/ HookEffect
  \/ HookCleanup
  \/ \E e \in {"open", "close", "audio"} : ClientEmits(e)

SpecRecorder == Init /\ [][NextRecorder]_vars

C38_NoRecordingWhenUnwanted == (~connected \/ muted) => recState # "recording"

\* ------------------------------------- the Session Client across connections
\* an accepted connect() call: it has started to open a transport
ConnectAccepted(s) == CountEv(s, "open") > 0

\* C33: from a state with status disconnected and the handle cleared (left by a
\* returned disconnect() or a handled close), status and handle change only by
\* an accepted connect() call; an open attempt still in flight changes neither.
C33_StaysDisconnected ==
  [][(status = "disconnected" /\ session = 0)
       => \/ status' = "disconnected" /\ session' = 0
          \/ ConnectAccepted(ev')]_vars

\* C34: status connected implies that the connection handle is present, so the
\* guard of send() and sendToolResponse() accepts whenever status is connected.
C34_ConnectedHasHandle == SendAcceptedOnStatus => SendAccepted

\* the transports whose close or error callback runs in the step publishing s
CallbackOf(s) ==
  {t \in Transports :
     \E k \in DOMAIN s : \/ s[k].e = "ev.close" /\ s[k].a = t
                         \/ s[k].e = "error" /\ s[k].a = 0 /\ s[k].b = t}

\* C35: a close or error callback of a transport that is not the one the handle
\* refers to changes neither the status nor the handle.
C35_StaleCallbackIgnored ==
  [][\A t \in CallbackOf(ev') :
       (session # 0 /\ session # t) => (status' = status /\ session' = session)]_vars

\* ------------------------------------------ the coordinator's teardowns
\* the teardowns resolved by a timeout in the step publishing s, each with the
\* disconnect call whose timer fired
TimeoutResolutions(s) ==
  {pq \in PromiseIds \X PromiseIds :
     \E j, k \in DOMAIN s : /\ s[j].e = "timeout" /\ s[j].a = pq[1]
                            /\ s[k].e = "resolve" /\ s[k].a = pq[2] /\ s[k].b = 1}

\* C36: a timeout resolves only the teardown of the disconnect call that armed it.
C36_OwnTimeoutOnly ==
  [][\A pq \in TimeoutResolutions(ev') : pq[1] = pq[2]]_vars

\* a coordinator disconnect() call resolves in the step publishing s: its
\* teardown is resolved by a close event or a timeout, or it returned at once
DisconnectResolved(s) == CountEv(s, "resolve") + CountEv(s, "disc.immediate") > 0

\* C37: when a coordinator disconnect() call has resolved, the connected flag
\* is false.
C37_ResolvedMeansNotConnected ==
  [][DisconnectResolved(ev') => ~connected']_vars

\* the transports that are open and have not been asked to close
OpenUnclosed == {t \in Transports : tstate[t] = "open"}

\* C40: when a coordinator disconnect() call has resolved, the Session Client
\* holds no handle and no transport it opened is left open without a close
\* request.
C40_ResolvedMeansTornDown ==
  [][DisconnectResolved(ev') => (session' = 0 /\ OpenUnclosed' = {})]_vars

\* ------------------------------------ useLiveApi's playback of inbound audio
playEnv ==
  <<clientVars, transportVars, coordVars, hookVars, uiVars, trayVars, kcVars, mq, mounted,
    envVars, demuxVars, groundVars, sendVars, captureVars, recorderStarted, dataListeners>>

\* the effect that registers audio for streaming: with no streamer yet it asks
\* for the output audio context
StreamerEffect ==
  /\ streamer = "none"
  /\ streamer' = "pending"
  /\ ev' = <<Ev("effect", "audio-out", 0)>>
  /\ UNCHANGED <<audioOut, played, clientListeners, hookBound, playEnv>>

\* the output audio context settles: then() creates the AudioStreamer and
\* stores it in audioStreamerRef, catch() publishes an error and stores nothing
StreamerSettles(ok) ==
  /\ streamer = "pending"
  /\ streamer' = IF ok THEN "ready" ELSE "failed"
  /\ ev' = IF ok THEN <<>> ELSE <<Ev("error", 5, 0)>>
  /\ UNCHANGED <<audioOut, played, clientListeners, hookBound, playEnv>>

\* onAudio's test of audioStreamerRef.current
OnAudioPlays == streamer = "ready"

\* what one call of onAudio with audio event i hands to addPCM16
OnAudio(i) == IF OnAudioPlays THEN <<i>> ELSE <<>>

RECURSIVE Repeat(_, _)
Repeat(x, n) == IF n = 0 THEN <<>> ELSE x \o Repeat(x, n - 1)

\* the client publishes an audio event on a connection (opened after mount, so
\* both effects have run): every registered onAudio is called with it
AudioPublished ==
  /\ hookBound /\ streamer # "none"
  /\ audioOut < MaxAudio
  /\ audioOut' = audioOut + 1
  /\ played' = played \o Repeat(OnAudio(audioOut + 1), clientListeners)
  /\ ev' = <<Ev("audio", audioOut + 1, 0)>>
  /\ UNCHANGED <<streamer, clientListeners, hookBound, playEnv>>

\* the client publishes interrupted: every registered stopAudioStreamer stops
\* the streamer if there is one
Interrupted ==
  /\ hookBound /\ streamer # "none"
  /\ ev' = [k \in 1..(IF streamer = "ready" THEN clientListeners ELSE 0) |->
              Ev("streamer.stop", k, 0)]
  /\ UNCHANGED <<playVars, clientListeners, hookBound, playEnv>>

NextPlayback ==
  \/ StreamerEffect
  \/ \E ok \in BOOLEAN : StreamerSettles(ok)
  \/ HookEffect
  \/ HookCleanup
  \/ AudioPublished
  \/ Interrupted

SpecPlayback == Init /\ [][NextPlayback]_vars

\* C39: every audio event published by the client has been handed to addPCM16
\* exactly once, in publication order.
C39_EveryAudioPlayedOnce == played = [k \in 1..audioOut |-> k]

====
